---- MODULE Spec2Model ----
(***************************************************************************)
(* PyAnalyzer: the defect-detection engine.                                *)
(*                                                                         *)
(*   - ASTParser        (core/ast_parser.py)       the per-file indices    *)
(*   - BasePatterns     (patterns/base_patterns.py) the detectors, PATTERNS*)
(*   - DefectDetector   (core/defect_detector.py)  detect_all              *)
(*   - PatternMatcher   (core/pattern_matcher.py)  match_all               *)
(*   - SymbolicExecutor (core/symbolic_executor.py) analyze                *)
(*                                                                         *)
(* A source file is its syntax tree in the order ast.walk yields it        *)
(* (breadth first), one record per node with the attributes the code       *)
(* reads.  Text that the code obtains with ast.unparse is carried by the   *)
(* node as a string; a test the code makes on the characters of such a     *)
(* text ('+' in arg_str) is carried as a flag beside it.                   *)
(***************************************************************************)
EXTENDS Integers, Sequences, FiniteSets, TLC

Range(s) == {s[i] : i \in DOMAIN s}

\* the concatenation of the sequences parts[lo], ..., parts[hi], in order
ConcatRange(parts, lo, hi) ==
  LET upto[i \in (lo - 1)..hi] == IF i < lo THEN <<>> ELSE upto[i - 1] \o parts[i]
  IN  upto[hi]

\* the concatenation of the sequences parts[1], ..., parts[Len(parts)],
\* taken sixteen at a time to keep the evaluation shallow
Concat(parts) ==
  LET n == Len(parts)
      blocks == [b \in 1..((n + 15) \div 16) |->
                   ConcatRange(parts, 16 * b - 15, IF 16 * b < n THEN 16 * b ELSE n)]
  IN  ConcatRange(blocks, 1, (n + 15) \div 16)

\* the sum of the numbers terms[lo], ..., terms[hi]
SumRange(terms, lo, hi) ==
  LET upto[i \in (lo - 1)..hi] == IF i < lo THEN 0 ELSE upto[i - 1] + terms[i]
  IN  upto[hi]

\* the sum of the numbers terms[1], ..., terms[Len(terms)], likewise
Sum(terms) ==
  LET n == Len(terms)
      blocks == [b \in 1..((n + 15) \div 16) |->
                   SumRange(terms, 16 * b - 15, IF 16 * b < n THEN 16 * b ELSE n)]
  IN  SumRange(blocks, 1, (n + 15) \div 16)

\* dict.get(key, default)
DictGet(d, key, default) == IF key \in DOMAIN d THEN d[key] ELSE default

(***************************************************************************)
(* Syntax-tree nodes.  parent is the index of the node's parent in the     *)
(* walk order (0 for the root); it is the tree's structure, not an         *)
(* attribute a detector can read.                                          *)
(***************************************************************************)
BaseNode ==
  [kind |-> "", parent |-> 0, lineno |-> 0, end_lineno |-> 0, name |-> "",
   ctx |-> "", value_src |-> "", func_kind |-> "", func_name |-> "",
   args |-> <<>>, op |-> "", right_src |-> "", test_src |-> "",
   returns |-> FALSE, params |-> <<>>, is_str |-> FALSE, count |-> 0,
   targets |-> <<>>, names |-> <<>>, bound |-> <<>>, func_value |-> "",
   src |-> ""]

\* a node of the given type: the attributes a reader takes from it, every
\* other attribute at its default
\*   name       FunctionDef.name, Name.id       src        ast.unparse(node)
\*   value_src  ast.unparse(node.value)         right_src  ast.unparse(node.right)
\*   test_src   ast.unparse(node.test)          is_str     isinstance(value, str)
\*   func_kind, func_name  the type of Call.func and its id or attr
\*   count      len(BoolOp.values), len(Match.cases)
\*   names      alias.name of the aliases of an import
\*   bound      the name each alias binds: asname, else the first component
\*              of an imported module's name, else the imported name
\*   func_value node.func.value.id of an Attribute callee on a Name
Node(kind, parent, lineno, attrs) ==
  [f \in DOMAIN BaseNode |->
     CASE f = "kind" -> kind
       [] f = "parent" -> parent
       [] f = "lineno" -> lineno
       [] f \in DOMAIN attrs -> attrs[f]
       [] OTHER -> BaseNode[f]]

(***************************************************************************)
(* The files analysed.                                                     *)
(*                                                                         *)
(* FileNull (tests/test_core.py, test_null_dereference):                   *)
(*     1                                                                   *)
(*     2  def dangerous():                                                 *)
(*     3      obj = None                                                   *)
(*     4      return obj.attribute                                         *)
(*                                                                         *)
(* FileMixed (after examples/example_project/vulnerable_code.py):          *)
(*     1  import os                                                        *)
(*     2  from sys import path                                             *)
(*     3  def problematic(a):                                              *)
(*     4      password = "secret123"                                       *)
(*     5      f = open("file.txt")                                         *)
(*     6      x = None.attr                                                *)
(*     7      while True:                                                  *)
(*     8          y = a / 0                                                *)
(*     9      cursor.execute("q" + a)                                      *)
(*    10      return password                                              *)
(*                                                                         *)
(* FileBranchy: every construct the complexity counts, and names written   *)
(* by an assignment, an annotated assignment and two loops:                *)
(*     1  def branchy(a, b):                                               *)
(*     2      _unused = 1                                                  *)
(*     3      n: int = 0                                                   *)
(*     4      u, v = a, b                                                  *)
(*     5      for j in u:                                                  *)
(*     6          if a and b and u and a:                                  *)
(*     7              pass                                                 *)
(*     8      try:                                                         *)
(*     9          pass                                                     *)
(*    10      except E:                                                    *)
(*    11          pass                                                     *)
(*    12      match a:                                                     *)
(*    13          case 1:                                                  *)
(*    14              pass                                                 *)
(*    15          case _:                                                  *)
(*    16              pass                                                 *)
(*    17      while b:                                                     *)
(*    18          pass                                                     *)
(*    19      return 0 if a else 1                                         *)
(*    20  def outer(s):                                                    *)
(*    21      async def inner():                                           *)
(*    22          async for x in s:                                        *)
(*    23              pass                                                 *)
(*    24      return inner                                                 *)
(*                                                                         *)
(* FileCases: aliased and dotted imports, the function of                  *)
(* tests/test_core.py test_multiple_patterns, a with statement, functions  *)
(* and a method of one name, a class, calls between them:                  *)
(*     1  import m as a                                                    *)
(*     2  import p.q                                                       *)
(*     3  import unused_mod                                                *)
(*     4  from r import s as t                                             *)
(*     5  def problematic():                                               *)
(*     6      password = "secret123"                                       *)
(*     7      f = open("file.txt")                                         *)
(*     8      x = None                                                     *)
(*     9      print(x.attr)                                                *)
(*    10      return password                                              *)
(*    11  def safe():                                                      *)
(*    12      with open("g.txt") as g:                                     *)
(*    13          return helper(a.f(p.q.g(t)))                             *)
(*    14  def helper(c):                                                   *)
(*    15      return c                                                     *)
(*    16  def helper(c, d):                                                *)
(*    17      if c and d and c:                                            *)
(*    18          return problematic()                                     *)
(*    19      return unknown(c)                                            *)
(*    20  class K:                                                         *)
(*    21      def helper(self):                                            *)
(*    22          return self.go()                                         *)
(*    23      def go(self):                                                *)
(*    24          return helper(1)                                         *)
(*                                                                         *)
(* FileLong: one function of 30 sequential calls, lines 1 to 31:           *)
(*     1  def long_one():                                                  *)
(*     2      noop()                                                       *)
(*    ..      ...                                                          *)
(*    31      noop()                                                       *)
(***************************************************************************)
FileNullNodes ==
  << Node("Module", 0, 0, <<>>),
     Node("FunctionDef", 1, 2, [end_lineno |-> 4, name |-> "dangerous", returns |-> FALSE, params |-> <<>>, src |-> "dangerous"]),
     Node("arguments", 2, 0, <<>>),
     Node("Assign", 2, 3, [targets |-> <<[kind |-> "Name", id |-> "obj", elts |-> <<>>, keyword |-> FALSE]>>, src |-> "obj = None"]),
     Node("Return", 2, 4, <<>>),
     Node("Name", 4, 3, [name |-> "obj", ctx |-> "Store", src |-> "obj"]),
     Node("Constant", 4, 3, [is_str |-> FALSE]),
     Node("Attribute", 5, 4, [value_src |-> "obj", src |-> "obj.attribute"]),
     Node("Store", 6, 0, <<>>),
     Node("Name", 8, 4, [name |-> "obj", ctx |-> "Load", src |-> "obj"]),
     Node("Load", 8, 0, <<>>),
     Node("Load", 10, 0, <<>>) >>

FileMixedNodes ==
  << Node("Module", 0, 0, <<>>),
     Node("Import", 1, 1, [names |-> <<"os">>, bound |-> <<"os">>]),
     Node("ImportFrom", 1, 2, [names |-> <<"path">>, bound |-> <<"path">>]),
     Node("FunctionDef", 1, 3, [end_lineno |-> 10, name |-> "problematic", returns |-> FALSE, params |-> <<[arg |-> "a", annotated |-> FALSE]>>, src |-> "problematic"]),
     Node("alias", 2, 1, <<>>),
     Node("alias", 3, 2, <<>>),
     Node("arguments", 4, 0, <<>>),
     Node("Assign", 4, 4, [targets |-> <<[kind |-> "Name", id |-> "password", elts |-> <<>>, keyword |-> TRUE]>>, src |-> "password = 'secret123'"]),
     Node("Assign", 4, 5, [targets |-> <<[kind |-> "Name", id |-> "f", elts |-> <<>>, keyword |-> FALSE]>>, src |-> "f = open('file.txt')"]),
     Node("Assign", 4, 6, [targets |-> <<[kind |-> "Name", id |-> "x", elts |-> <<>>, keyword |-> FALSE]>>, src |-> "x = None.attr"]),
     Node("While", 4, 7, [test_src |-> "True", src |-> "while True:\n    y = a / 0"]),
     Node("Expr", 4, 9, <<>>),
     Node("Return", 4, 10, <<>>),
     Node("arg", 7, 3, <<>>),
     Node("Name", 8, 4, [name |-> "password", ctx |-> "Store", src |-> "password"]),
     Node("Constant", 8, 4, [is_str |-> TRUE]),
     Node("Name", 9, 5, [name |-> "f", ctx |-> "Store", src |-> "f"]),
     Node("Call", 9, 5, [func_kind |-> "Name", func_name |-> "open", args |-> <<[src |-> "'file.txt'", plus |-> FALSE, percent |-> FALSE, format |-> FALSE]>>, src |-> "open('file.txt')"]),
     Node("Name", 10, 6, [name |-> "x", ctx |-> "Store", src |-> "x"]),
     Node("Attribute", 10, 6, [value_src |-> "None", src |-> "None.attr"]),
     Node("Constant", 11, 7, [is_str |-> FALSE]),
     Node("Assign", 11, 8, [targets |-> <<[kind |-> "Name", id |-> "y", elts |-> <<>>, keyword |-> FALSE]>>, src |-> "y = a / 0"]),
     Node("Call", 12, 9, [func_kind |-> "Attribute", func_name |-> "execute", func_value |-> "cursor", args |-> <<[src |-> "'q' + a", plus |-> TRUE, percent |-> FALSE, format |-> FALSE]>>, src |-> "cursor.execute('q' + a)"]),
     Node("Name", 13, 10, [name |-> "password", ctx |-> "Load", src |-> "password"]),
     Node("Store", 15, 0, <<>>),
     Node("Store", 17, 0, <<>>),
     Node("Name", 18, 5, [name |-> "open", ctx |-> "Load", src |-> "open"]),
     Node("Constant", 18, 5, [is_str |-> TRUE]),
     Node("Store", 19, 0, <<>>),
     Node("Constant", 20, 6, [is_str |-> FALSE]),
     Node("Load", 20, 0, <<>>),
     Node("Name", 22, 8, [name |-> "y", ctx |-> "Store", src |-> "y"]),
     Node("BinOp", 22, 8, [op |-> "Div", right_src |-> "0", src |-> "a / 0"]),
     Node("Attribute", 23, 9, [value_src |-> "cursor", src |-> "cursor.execute"]),
     Node("BinOp", 23, 9, [op |-> "Add", right_src |-> "a", src |-> "'q' + a"]),
     Node("Load", 24, 0, <<>>),
     Node("Load", 27, 0, <<>>),
     Node("Store", 32, 0, <<>>),
     Node("Name", 33, 8, [name |-> "a", ctx |-> "Load", src |-> "a"]),
     Node("Div", 33, 0, <<>>),
     Node("Constant", 33, 8, [is_str |-> FALSE]),
     Node("Name", 34, 9, [name |-> "cursor", ctx |-> "Load", src |-> "cursor"]),
     Node("Load", 34, 0, <<>>),
     Node("Constant", 35, 9, [is_str |-> TRUE]),
     Node("Add", 35, 0, <<>>),
     Node("Name", 35, 9, [name |-> "a", ctx |-> "Load", src |-> "a"]),
     Node("Load", 39, 0, <<>>),
     Node("Load", 42, 0, <<>>),
     Node("Load", 46, 0, <<>>) >>

\* Module, FunctionDef, arguments, then the 30 Expr statements, their 30
\* Call values, the 30 Name callees and the 30 Load contexts, level by level.
FileLongNodes ==
  << Node("Module", 0, 0, <<>>),
     Node("FunctionDef", 1, 1, [end_lineno |-> 31, name |-> "long_one", returns |-> FALSE, params |-> <<>>, src |-> "long_one"]),
     Node("arguments", 2, 0, <<>>) >>
  \o [i \in 1..30 |-> Node("Expr", 2, i + 1, <<>>)]
  \o [i \in 1..30 |-> Node("Call", 3 + i, i + 1, [func_kind |-> "Name", func_name |-> "noop", args |-> <<>>, src |-> "noop()"])]
  \o [i \in 1..30 |-> Node("Name", 33 + i, i + 1, [name |-> "noop", ctx |-> "Load", src |-> "noop"])]
  \o [i \in 1..30 |-> Node("Load", 63 + i, 0, <<>>)]

FileBranchyNodes ==
  << Node("Module", 0, 0, <<>>),
     Node("FunctionDef", 1, 1, [end_lineno |-> 19, name |-> "branchy", returns |-> FALSE, params |-> <<[arg |-> "a", annotated |-> FALSE], [arg |-> "b", annotated |-> FALSE]>>, src |-> "branchy"]),
     Node("FunctionDef", 1, 20, [end_lineno |-> 24, name |-> "outer", returns |-> FALSE, params |-> <<[arg |-> "s", annotated |-> FALSE]>>, src |-> "outer"]),
     Node("arguments", 2, 0, <<>>),
     Node("Assign", 2, 2, [targets |-> <<[kind |-> "Name", id |-> "_unused", elts |-> <<>>, keyword |-> FALSE]>>, src |-> "_unused = 1"]),
     Node("AnnAssign", 2, 3, <<>>),
     Node("Assign", 2, 4, [targets |-> <<[kind |-> "Tuple", id |-> "", elts |-> <<"u", "v">>, keyword |-> FALSE]>>, src |-> "u, v = (a, b)"]),
     Node("For", 2, 5, <<>>),
     Node("Try", 2, 8, <<>>),
     Node("Match", 2, 12, [count |-> 2]),
     Node("While", 2, 17, [test_src |-> "b", src |-> "while b:\n    pass"]),
     Node("Return", 2, 19, <<>>),
     Node("arguments", 3, 0, <<>>),
     Node("AsyncFunctionDef", 3, 21, <<>>),
     Node("Return", 3, 24, <<>>),
     Node("arg", 4, 1, <<>>),
     Node("arg", 4, 1, <<>>),
     Node("Name", 5, 2, [name |-> "_unused", ctx |-> "Store", src |-> "_unused"]),
     Node("Constant", 5, 2, [is_str |-> FALSE]),
     Node("Name", 6, 3, [name |-> "n", ctx |-> "Store", src |-> "n"]),
     Node("Name", 6, 3, [name |-> "int", ctx |-> "Load", src |-> "int"]),
     Node("Constant", 6, 3, [is_str |-> FALSE]),
     Node("Tuple", 7, 4, <<>>),
     Node("Tuple", 7, 4, <<>>),
     Node("Name", 8, 5, [name |-> "j", ctx |-> "Store", src |-> "j"]),
     Node("Name", 8, 5, [name |-> "u", ctx |-> "Load", src |-> "u"]),
     Node("If", 8, 6, <<>>),
     Node("Pass", 9, 9, <<>>),
     Node("ExceptHandler", 9, 10, <<>>),
     Node("Name", 10, 12, [name |-> "a", ctx |-> "Load", src |-> "a"]),
     Node("match_case", 10, 0, <<>>),
     Node("match_case", 10, 0, <<>>),
     Node("Name", 11, 17, [name |-> "b", ctx |-> "Load", src |-> "b"]),
     Node("Pass", 11, 18, <<>>),
     Node("IfExp", 12, 19, <<>>),
     Node("arg", 13, 20, <<>>),
     Node("arguments", 14, 0, <<>>),
     Node("AsyncFor", 14, 22, <<>>),
     Node("Name", 15, 24, [name |-> "inner", ctx |-> "Load", src |-> "inner"]),
     Node("Store", 18, 0, <<>>),
     Node("Store", 20, 0, <<>>),
     Node("Load", 21, 0, <<>>),
     Node("Name", 23, 4, [name |-> "u", ctx |-> "Store", src |-> "u"]),
     Node("Name", 23, 4, [name |-> "v", ctx |-> "Store", src |-> "v"]),
     Node("Store", 23, 0, <<>>),
     Node("Name", 24, 4, [name |-> "a", ctx |-> "Load", src |-> "a"]),
     Node("Name", 24, 4, [name |-> "b", ctx |-> "Load", src |-> "b"]),
     Node("Load", 24, 0, <<>>),
     Node("Store", 25, 0, <<>>),
     Node("Load", 26, 0, <<>>),
     Node("BoolOp", 27, 6, [count |-> 4]),
     Node("Pass", 27, 7, <<>>),
     Node("Name", 29, 10, [name |-> "E", ctx |-> "Load", src |-> "E"]),
     Node("Pass", 29, 11, <<>>),
     Node("Load", 30, 0, <<>>),
     Node("MatchValue", 31, 13, <<>>),
     Node("Pass", 31, 14, <<>>),
     Node("MatchAs", 32, 15, <<>>),
     Node("Pass", 32, 16, <<>>),
     Node("Load", 33, 0, <<>>),
     Node("Name", 35, 19, [name |-> "a", ctx |-> "Load", src |-> "a"]),
     Node("Constant", 35, 19, [is_str |-> FALSE]),
     Node("Constant", 35, 19, [is_str |-> FALSE]),
     Node("Name", 38, 22, [name |-> "x", ctx |-> "Store", src |-> "x"]),
     Node("Name", 38, 22, [name |-> "s", ctx |-> "Load", src |-> "s"]),
     Node("Pass", 38, 23, <<>>),
     Node("Load", 39, 0, <<>>),
     Node("Store", 43, 0, <<>>),
     Node("Store", 44, 0, <<>>),
     Node("Load", 46, 0, <<>>),
     Node("Load", 47, 0, <<>>),
     Node("And", 51, 0, <<>>),
     Node("Name", 51, 6, [name |-> "a", ctx |-> "Load", src |-> "a"]),
     Node("Name", 51, 6, [name |-> "b", ctx |-> "Load", src |-> "b"]),
     Node("Name", 51, 6, [name |-> "u", ctx |-> "Load", src |-> "u"]),
     Node("Name", 51, 6, [name |-> "a", ctx |-> "Load", src |-> "a"]),
     Node("Load", 53, 0, <<>>),
     Node("Constant", 56, 13, [is_str |-> FALSE]),
     Node("Load", 61, 0, <<>>),
     Node("Store", 64, 0, <<>>),
     Node("Load", 65, 0, <<>>),
     Node("Load", 73, 0, <<>>),
     Node("Load", 74, 0, <<>>),
     Node("Load", 75, 0, <<>>),
     Node("Load", 76, 0, <<>>) >>

FileCasesNodes ==
  << Node("Module", 0, 0, <<>>),
     Node("Import", 1, 1, [names |-> <<"m">>, bound |-> <<"a">>]),
     Node("Import", 1, 2, [names |-> <<"p.q">>, bound |-> <<"p">>]),
     Node("Import", 1, 3, [names |-> <<"unused_mod">>, bound |-> <<"unused_mod">>]),
     Node("ImportFrom", 1, 4, [names |-> <<"s">>, bound |-> <<"t">>]),
     Node("FunctionDef", 1, 5, [end_lineno |-> 10, name |-> "problematic", returns |-> FALSE, params |-> <<>>, src |-> "problematic"]),
     Node("FunctionDef", 1, 11, [end_lineno |-> 13, name |-> "safe", returns |-> FALSE, params |-> <<>>, src |-> "safe"]),
     Node("FunctionDef", 1, 14, [end_lineno |-> 15, name |-> "helper", returns |-> FALSE, params |-> <<[arg |-> "c", annotated |-> FALSE]>>, src |-> "helper"]),
     Node("FunctionDef", 1, 16, [end_lineno |-> 19, name |-> "helper", returns |-> FALSE, params |-> <<[arg |-> "c", annotated |-> FALSE], [arg |-> "d", annotated |-> FALSE]>>, src |-> "helper"]),
     Node("ClassDef", 1, 20, [name |-> "K", src |-> "K"]),
     Node("alias", 2, 1, <<>>),
     Node("alias", 3, 2, <<>>),
     Node("alias", 4, 3, <<>>),
     Node("alias", 5, 4, <<>>),
     Node("arguments", 6, 0, <<>>),
     Node("Assign", 6, 6, [targets |-> <<[kind |-> "Name", id |-> "password", elts |-> <<>>, keyword |-> TRUE]>>, src |-> "password = 'secret123'"]),
     Node("Assign", 6, 7, [targets |-> <<[kind |-> "Name", id |-> "f", elts |-> <<>>, keyword |-> FALSE]>>, src |-> "f = open('file.txt')"]),
     Node("Assign", 6, 8, [targets |-> <<[kind |-> "Name", id |-> "x", elts |-> <<>>, keyword |-> FALSE]>>, src |-> "x = None"]),
     Node("Expr", 6, 9, <<>>),
     Node("Return", 6, 10, <<>>),
     Node("arguments", 7, 0, <<>>),
     Node("With", 7, 12, <<>>),
     Node("arguments", 8, 0, <<>>),
     Node("Return", 8, 15, <<>>),
     Node("arguments", 9, 0, <<>>),
     Node("If", 9, 17, <<>>),
     Node("Return", 9, 19, <<>>),
     Node("FunctionDef", 10, 21, [end_lineno |-> 22, name |-> "helper", returns |-> FALSE, params |-> <<[arg |-> "self", annotated |-> FALSE]>>, src |-> "helper"]),
     Node("FunctionDef", 10, 23, [end_lineno |-> 24, name |-> "go", returns |-> FALSE, params |-> <<[arg |-> "self", annotated |-> FALSE]>>, src |-> "go"]),
     Node("Name", 16, 6, [name |-> "password", ctx |-> "Store", src |-> "password"]),
     Node("Constant", 16, 6, [is_str |-> TRUE]),
     Node("Name", 17, 7, [name |-> "f", ctx |-> "Store", src |-> "f"]),
     Node("Call", 17, 7, [func_kind |-> "Name", func_name |-> "open", args |-> <<[src |-> "'file.txt'", plus |-> FALSE, percent |-> FALSE, format |-> FALSE]>>, src |-> "open('file.txt')"]),
     Node("Name", 18, 8, [name |-> "x", ctx |-> "Store", src |-> "x"]),
     Node("Constant", 18, 8, [is_str |-> FALSE]),
     Node("Call", 19, 9, [func_kind |-> "Name", func_name |-> "print", args |-> <<[src |-> "x.attr", plus |-> FALSE, percent |-> FALSE, format |-> FALSE]>>, src |-> "print(x.attr)"]),
     Node("Name", 20, 10, [name |-> "password", ctx |-> "Load", src |-> "password"]),
     Node("withitem", 22, 0, <<>>),
     Node("Return", 22, 13, <<>>),
     Node("arg", 23, 14, <<>>),
     Node("Name", 24, 15, [name |-> "c", ctx |-> "Load", src |-> "c"]),
     Node("arg", 25, 16, <<>>),
     Node("arg", 25, 16, <<>>),
     Node("BoolOp", 26, 17, [count |-> 3]),
     Node("Return", 26, 18, <<>>),
     Node("Call", 27, 19, [func_kind |-> "Name", func_name |-> "unknown", args |-> <<[src |-> "c", plus |-> FALSE, percent |-> FALSE, format |-> FALSE]>>, src |-> "unknown(c)"]),
     Node("arguments", 28, 0, <<>>),
     Node("Return", 28, 22, <<>>),
     Node("arguments", 29, 0, <<>>),
     Node("Return", 29, 24, <<>>),
     Node("Store", 30, 0, <<>>),
     Node("Store", 32, 0, <<>>),
     Node("Name", 33, 7, [name |-> "open", ctx |-> "Load", src |-> "open"]),
     Node("Constant", 33, 7, [is_str |-> TRUE]),
     Node("Store", 34, 0, <<>>),
     Node("Name", 36, 9, [name |-> "print", ctx |-> "Load", src |-> "print"]),
     Node("Attribute", 36, 9, [value_src |-> "x", src |-> "x.attr"]),
     Node("Load", 37, 0, <<>>),
     Node("Call", 38, 12, [func_kind |-> "Name", func_name |-> "open", args |-> <<[src |-> "'g.txt'", plus |-> FALSE, percent |-> FALSE, format |-> FALSE]>>, src |-> "open('g.txt')"]),
     Node("Name", 38, 12, [name |-> "g", ctx |-> "Store", src |-> "g"]),
     Node("Call", 39, 13, [func_kind |-> "Name", func_name |-> "helper", args |-> <<[src |-> "a.f(p.q.g(t))", plus |-> FALSE, percent |-> FALSE, format |-> FALSE]>>, src |-> "helper(a.f(p.q.g(t)))"]),
     Node("Load", 41, 0, <<>>),
     Node("And", 44, 0, <<>>),
     Node("Name", 44, 17, [name |-> "c", ctx |-> "Load", src |-> "c"]),
     Node("Name", 44, 17, [name |-> "d", ctx |-> "Load", src |-> "d"]),
     Node("Name", 44, 17, [name |-> "c", ctx |-> "Load", src |-> "c"]),
     Node("Call", 45, 18, [func_kind |-> "Name", func_name |-> "problematic", args |-> <<>>, src |-> "problematic()"]),
     Node("Name", 46, 19, [name |-> "unknown", ctx |-> "Load", src |-> "unknown"]),
     Node("Name", 46, 19, [name |-> "c", ctx |-> "Load", src |-> "c"]),
     Node("arg", 47, 21, <<>>),
     Node("Call", 48, 22, [func_kind |-> "Attribute", func_name |-> "go", func_value |-> "self", args |-> <<>>, src |-> "self.go()"]),
     Node("arg", 49, 23, <<>>),
     Node("Call", 50, 24, [func_kind |-> "Name", func_name |-> "helper", args |-> <<[src |-> "1", plus |-> FALSE, percent |-> FALSE, format |-> FALSE]>>, src |-> "helper(1)"]),
     Node("Load", 53, 0, <<>>),
     Node("Load", 56, 0, <<>>),
     Node("Name", 57, 9, [name |-> "x", ctx |-> "Load", src |-> "x"]),
     Node("Load", 57, 0, <<>>),
     Node("Name", 59, 12, [name |-> "open", ctx |-> "Load", src |-> "open"]),
     Node("Constant", 59, 12, [is_str |-> TRUE]),
     Node("Store", 60, 0, <<>>),
     Node("Name", 61, 13, [name |-> "helper", ctx |-> "Load", src |-> "helper"]),
     Node("Call", 61, 13, [func_kind |-> "Attribute", func_name |-> "f", func_value |-> "a", args |-> <<[src |-> "p.q.g(t)", plus |-> FALSE, percent |-> FALSE, format |-> FALSE]>>, src |-> "a.f(p.q.g(t))"]),
     Node("Load", 64, 0, <<>>),
     Node("Load", 65, 0, <<>>),
     Node("Load", 66, 0, <<>>),
     Node("Name", 67, 18, [name |-> "problematic", ctx |-> "Load", src |-> "problematic"]),
     Node("Load", 68, 0, <<>>),
     Node("Load", 69, 0, <<>>),
     Node("Attribute", 71, 22, [value_src |-> "self", src |-> "self.go"]),
     Node("Name", 73, 24, [name |-> "helper", ctx |-> "Load", src |-> "helper"]),
     Node("Constant", 73, 24, [is_str |-> FALSE]),
     Node("Load", 76, 0, <<>>),
     Node("Load", 78, 0, <<>>),
     Node("Load", 81, 0, <<>>),
     Node("Attribute", 82, 13, [value_src |-> "a", src |-> "a.f"]),
     Node("Call", 82, 13, [func_kind |-> "Attribute", func_name |-> "g", args |-> <<[src |-> "t", plus |-> FALSE, percent |-> FALSE, format |-> FALSE]>>, src |-> "p.q.g(t)"]),
     Node("Load", 86, 0, <<>>),
     Node("Name", 89, 22, [name |-> "self", ctx |-> "Load", src |-> "self"]),
     Node("Load", 89, 0, <<>>),
     Node("Load", 90, 0, <<>>),
     Node("Name", 95, 13, [name |-> "a", ctx |-> "Load", src |-> "a"]),
     Node("Load", 95, 0, <<>>),
     Node("Attribute", 96, 13, [value_src |-> "p.q", src |-> "p.q.g"]),
     Node("Name", 96, 13, [name |-> "t", ctx |-> "Load", src |-> "t"]),
     Node("Load", 98, 0, <<>>),
     Node("Load", 101, 0, <<>>),
     Node("Attribute", 103, 13, [value_src |-> "p", src |-> "p.q"]),
     Node("Load", 103, 0, <<>>),
     Node("Load", 104, 0, <<>>),
     Node("Name", 107, 13, [name |-> "p", ctx |-> "Load", src |-> "p"]),
     Node("Load", 107, 0, <<>>),
     Node("Load", 110, 0, <<>>) >>

Files == {"FileNull", "FileMixed", "FileLong", "FileBranchy", "FileCases"}

\* ast.walk(self.parser.ast_tree)
Walk(file) ==
  IF file = "FileNull" THEN FileNullNodes
  ELSE IF file = "FileMixed" THEN FileMixedNodes
  ELSE IF file = "FileBranchy" THEN FileBranchyNodes
  ELSE IF file = "FileCases" THEN FileCasesNodes
  ELSE FileLongNodes

(***************************************************************************)
(* ASTParser: the indices built once per file by _extract_info.            *)
(***************************************************************************)

\* ast.walk(node): the node itself and every node below it
InSubtree(nodes, i, root) ==
  LET below[j \in 0..Len(nodes)] ==
        IF j = root THEN TRUE
        ELSE IF j = 0 THEN FALSE
        ELSE below[nodes[j].parent]
  IN  below[i]

\* a count that adds one for a boolean chain, whatever its length
ComplexityOf_flat(n) ==
  IF n.kind \in {"If", "While", "For", "AsyncFor", "BoolOp", "Try", "ExceptHandler"}
  THEN 1
  ELSE IF n.kind = "Match" THEN n.count
  ELSE 0

\* ASTParser._calculate_cyclomatic_complexity: what one node adds
ComplexityOf(n) ==
  IF n.kind \in {"If", "While", "For", "AsyncFor"} THEN 1
  ELSE IF n.kind = "BoolOp" THEN n.count - 1
  ELSE IF n.kind \in {"Try", "ExceptHandler"} THEN 1
  ELSE IF n.kind = "Match" THEN n.count
  ELSE 0

\* complexity = 1, then += over ast.walk(node)
_calculate_cyclomatic_complexity(nodes, root) ==
  1 + Sum([i \in DOMAIN nodes |->
             IF InSubtree(nodes, i, root) THEN ComplexityOf(nodes[i]) ELSE 0])

\* ASTParser._parse_function: the FunctionInfo of the FunctionDef at index i;
\* body is the FunctionDef node itself (body=node)
_parse_function(nodes, i) ==
  [name |-> nodes[i].name,
   lineno |-> nodes[i].lineno,
   args |-> [k \in DOMAIN nodes[i].params |-> nodes[i].params[k].arg],
   body |-> i,
   complexity |-> _calculate_cyclomatic_complexity(nodes, i)]

\* self.functions: one FunctionInfo per FunctionDef, in walk order
Functions(nodes) ==
  Concat([i \in DOMAIN nodes |->
            IF nodes[i].kind = "FunctionDef" THEN <<_parse_function(nodes, i)>> ELSE <<>>])

\* ASTParser._parse_import: alias.name of every alias
_parse_import(n) ==
  [type |-> IF n.kind = "Import" THEN "import" ELSE "import_from",
   names |-> n.names, lineno |-> n.lineno]

\* self.imports: one record per Import and ImportFrom, in walk order
Imports(nodes) ==
  Concat([i \in DOMAIN nodes |->
            IF nodes[i].kind \in {"Import", "ImportFrom"}
            THEN <<_parse_import(nodes[i])>> ELSE <<>>])

\* the writes of one Assign, in target order: a Name target, or the Name
\* elements of a Tuple target, each with the Assign's line
TargetWrites(node) ==
  Concat([k \in DOMAIN node.targets |->
            IF node.targets[k].kind = "Name"
            THEN <<[variable |-> node.targets[k].id, lineno |-> node.lineno]>>
            ELSE IF node.targets[k].kind = "Tuple"
            THEN [e \in DOMAIN node.targets[k].elts |->
                    [variable |-> node.targets[k].elts[e], lineno |-> node.lineno]]
            ELSE <<>>])

\* self.variables[name].append(lineno): variables is kept as the sequence of
\* [variable, lines] in the order the names were first written (the dict's
\* insertion order)
AppendLine(vars, name, lineno) ==
  IF \E k \in DOMAIN vars : vars[k].variable = name
  THEN LET k == CHOOSE k \in DOMAIN vars : vars[k].variable = name
       IN  [vars EXCEPT ![k].lines = Append(@, lineno)]
  ELSE Append(vars, [variable |-> name, lines |-> <<lineno>>])

\* ASTParser._parse_assignment on every Assign, in walk order: self.variables
\* after the writes w[1], ..., w[Len(w)]
_parse_assignment(w) ==
  LET after[k \in 0..Len(w)] ==
        IF k = 0 THEN <<>>
        ELSE AppendLine(after[k - 1], w[k].variable, w[k].lineno)
  IN  after[Len(w)]

Variables(nodes) ==
  _parse_assignment(Concat([i \in DOMAIN nodes |->
                              IF nodes[i].kind = "Assign" THEN TargetWrites(nodes[i])
                              ELSE <<>>]))

\* ASTParser._parse_class: the ClassInfo of the ClassDef at index i; methods
\* are the FunctionDef statements of its body
_parse_class(nodes, i) ==
  [name |-> nodes[i].name,
   lineno |-> nodes[i].lineno,
   methods |-> Concat([j \in DOMAIN nodes |->
                         IF nodes[j].kind = "FunctionDef" /\ nodes[j].parent = i
                         THEN <<_parse_function(nodes, j)>> ELSE <<>>])]

\* ASTParser(source_code, file_path) after _extract_info
\* (ast_tree is held as the list ast.walk(ast_tree) yields)
ASTParser(tree, file_path) ==
  [file_path |-> file_path,
   ast_tree  |-> tree,
   functions |-> Functions(tree),
   classes   |-> Concat([i \in DOMAIN tree |->
                           IF tree[i].kind = "ClassDef"
                           THEN <<_parse_class(tree, i)>> ELSE <<>>]),
   imports   |-> Imports(tree),
   variables |-> Variables(tree)]

\* ASTParser.get_function_by_name: the first function of that name, or none
RECURSIVE FirstNamed(_, _, _)
FirstNamed(functions, name, k) ==
  IF k > Len(functions) THEN <<>>
  ELSE IF functions[k].name = name THEN <<functions[k]>>
  ELSE FirstNamed(functions, name, k + 1)

get_function_by_name(parser, name) == FirstNamed(parser.functions, name, 1)

\* the names read somewhere in the tree: Name nodes in Load context
UsedNames(nodes) ==
  {nodes[i].name : i \in {j \in DOMAIN nodes : nodes[j].kind = "Name" /\ nodes[j].ctx = "Load"}}

\* var_name.startswith('_'): of the names of the files above, _unused does
StartsWithUnderscore(name) == name \in {"_", "_unused"}

\* ASTParser.find_unused_variables
RECURSIVE UnusedFrom(_, _, _)
UnusedFrom(vars, used, k) ==
  IF k > Len(vars) THEN <<>>
  ELSE (IF vars[k].variable \notin used /\ ~StartsWithUnderscore(vars[k].variable)
        THEN <<vars[k]>> ELSE <<>>)
       \o UnusedFrom(vars, used, k + 1)

find_unused_variables(parser) ==
  UnusedFrom(parser.variables, UsedNames(parser.ast_tree), 1)

(***************************************************************************)
(* BasePatterns: the detectors.  A detector returns the list of its        *)
(* findings; the empty list stands for the None it returns when it found   *)
(* nothing (the callers test the result's truth, which is the same for     *)
(* both).                                                                  *)
(***************************************************************************)
Defect(pattern, severity, line, file_path, context) ==
  [pattern |-> pattern, severity |-> severity, line |-> line,
   file_path |-> file_path, context |-> context]

\* getattr(node, 'parent', None): no code of the analyser gives a node a
\* parent attribute, so the default is what a detector gets
NoParent == [kind |-> "None", targets |-> <<>>, src |-> ""]
ParentAttr(node) == NoParent

detect_null_dereference(node, file_path, parser) ==
  IF node.kind = "Attribute"
  THEN IF node.value_src = "None"
       THEN <<Defect("null_dereference", "high", node.lineno, file_path, node.src)>>
       ELSE <<>>
  ELSE IF node.kind = "Subscript"
  THEN IF node.value_src = "None"
       THEN <<Defect("null_dereference", "high", node.lineno, file_path, node.src)>>
       ELSE <<>>
  ELSE IF node.kind = "Call"
  THEN IF node.func_kind = "Name" /\ node.func_name = "None"
       THEN <<Defect("null_dereference", "high", node.lineno, file_path, node.src)>>
       ELSE <<>>
  ELSE <<>>

\* func_name: node.func.id of a Name callee, node.func.attr of an Attribute
\* callee, "" otherwise (the Call node carries it so)
resource_functions == {"open", "connect", "start", "create"}

detect_resource_leak(node, file_path, parser) ==
  IF node.kind = "With" THEN <<>>
  ELSE IF node.kind = "Call" /\ node.func_name \in resource_functions
  THEN <<Defect("resource_leak", "medium", node.lineno, file_path, node.src)>>
  ELSE <<>>

detect_division_by_zero(node, file_path, parser) ==
  IF /\ node.kind = "BinOp"
     /\ node.op \in {"Div", "FloorDiv", "Mod"}
     /\ node.right_src \in {"0", "0.0"}
  THEN <<Defect("division_by_zero", "high", node.lineno, file_path, node.src)>>
  ELSE <<>>

\* one finding per Name target whose name holds a credential keyword
\* (keyword: any(keyword in target.id.lower()))
RECURSIVE PasswordTargets(_, _, _, _)
PasswordTargets(node, parent, file_path, k) ==
  IF k > Len(parent.targets) THEN <<>>
  ELSE (IF parent.targets[k].kind = "Name" /\ parent.targets[k].keyword
        THEN <<Defect("hardcoded_password", "critical", node.lineno, file_path, parent.src)>>
        ELSE <<>>)
       \o PasswordTargets(node, parent, file_path, k + 1)

detect_hardcoded_password(node, file_path, parser) ==
  IF node.kind = "Constant" /\ node.is_str
  THEN LET parent == ParentAttr(node)
       IN  IF parent # NoParent /\ parent.kind = "Assign"
           THEN PasswordTargets(node, parent, file_path, 1)
           ELSE <<>>
  ELSE <<>>

sql_functions == {"execute", "executemany", "query", "raw"}

\* one finding per argument whose text holds '+', '%' or 'format('
RECURSIVE SqlArgs(_, _, _)
SqlArgs(node, file_path, k) ==
  IF k > Len(node.args) THEN <<>>
  ELSE (IF node.args[k].plus \/ node.args[k].percent \/ node.args[k].format
        THEN <<Defect("sql_injection", "critical", node.lineno, file_path, node.src)>>
        ELSE <<>>)
       \o SqlArgs(node, file_path, k + 1)

detect_sql_injection(node, file_path, parser) ==
  IF node.kind = "Call" /\ node.func_name \in sql_functions
  THEN SqlArgs(node, file_path, 1)
  ELSE <<>>

detect_infinite_loop(node, file_path, parser) ==
  IF node.kind = "While" /\ node.test_src \in {"True", "1"}
  THEN <<Defect("potential_loop_infinite", "medium", node.lineno, file_path, node.src)>>
  ELSE <<>>

RECURSIVE MissingArgHints(_, _, _)
MissingArgHints(node, file_path, k) ==
  IF k > Len(node.params) THEN <<>>
  ELSE (IF ~node.params[k].annotated
        THEN <<Defect("missing_type_hints", "low", node.lineno, file_path, node.name)>>
        ELSE <<>>)
       \o MissingArgHints(node, file_path, k + 1)

detect_missing_type_hints(node, file_path, parser) ==
  IF node.kind = "FunctionDef"
  THEN (IF ~node.returns
        THEN <<Defect("missing_type_hints", "low", node.lineno, file_path, node.name)>>
        ELSE <<>>)
       \o MissingArgHints(node, file_path, 1)
  ELSE <<>>

\* length = end_lineno - lineno (every FunctionDef carries end_lineno)
detect_long_function(node, file_path, parser, threshold) ==
  IF node.kind = "FunctionDef" /\ node.end_lineno - node.lineno > threshold
  THEN <<Defect("long_function", "medium", node.lineno, file_path, node.name)>>
  ELSE <<>>

detect_high_complexity(node, file_path, parser, threshold) ==
  IF node.kind = "FunctionDef"
  THEN LET func == get_function_by_name(parser, node.name)
       IN  IF func # <<>> /\ func[1].complexity > threshold
           THEN <<Defect("high_complexity", "medium", node.lineno, file_path, node.name)>>
           ELSE <<>>
  ELSE <<>>

\* PATTERNS: the registry of base patterns, id -> severity and detector
PATTERNS ==
  [id \in {"null_dereference", "resource_leak", "division_by_zero",
           "hardcoded_password", "sql_injection", "potential_loop_infinite",
           "missing_type_hints", "long_function", "high_complexity"} |->
     CASE id = "null_dereference"        -> [severity |-> "high",     detector |-> "detect_null_dereference"]
       [] id = "resource_leak"           -> [severity |-> "medium",   detector |-> "detect_resource_leak"]
       [] id = "division_by_zero"        -> [severity |-> "high",     detector |-> "detect_division_by_zero"]
       [] id = "hardcoded_password"      -> [severity |-> "critical", detector |-> "detect_hardcoded_password"]
       [] id = "sql_injection"           -> [severity |-> "critical", detector |-> "detect_sql_injection"]
       [] id = "potential_loop_infinite" -> [severity |-> "medium",   detector |-> "detect_infinite_loop"]
       [] id = "missing_type_hints"      -> [severity |-> "low",      detector |-> "detect_missing_type_hints"]
       [] id = "long_function"           -> [severity |-> "medium",   detector |-> "detect_long_function"]
       [] id = "high_complexity"         -> [severity |-> "medium",   detector |-> "detect_high_complexity"]]

\* detector(node, file_path, parser)
Call3(detector, node, file_path, parser) ==
  CASE detector = "detect_null_dereference"   -> detect_null_dereference(node, file_path, parser)
    [] detector = "detect_resource_leak"      -> detect_resource_leak(node, file_path, parser)
    [] detector = "detect_division_by_zero"   -> detect_division_by_zero(node, file_path, parser)
    [] detector = "detect_hardcoded_password" -> detect_hardcoded_password(node, file_path, parser)
    [] detector = "detect_sql_injection"      -> detect_sql_injection(node, file_path, parser)
    [] detector = "detect_infinite_loop"      -> detect_infinite_loop(node, file_path, parser)
    [] detector = "detect_missing_type_hints" -> detect_missing_type_hints(node, file_path, parser)
    \* the threshold parameters' defaults: threshold: int = 50, threshold: int = 10
    [] detector = "detect_long_function"      -> detect_long_function(node, file_path, parser, 50)
    [] detector = "detect_high_complexity"    -> detect_high_complexity(node, file_path, parser, 10)

\* detector(node, file_path, parser, threshold)
Call4(detector, node, file_path, parser, threshold) ==
  CASE detector = "detect_long_function"   -> detect_long_function(node, file_path, parser, threshold)
    [] detector = "detect_high_complexity" -> detect_high_complexity(node, file_path, parser, threshold)

(***************************************************************************)
(* Severity (an Enum whose values are the lower-case names) and the        *)
(* configuration.  A configuration is                                      *)
(*   [enabled    : config["patterns"]["enabled"], a list of pattern ids,   *)
(*    thresholds : config["patterns"]["thresholds"], a dict,               *)
(*    reporting  : config["reporting"], a dict]                            *)
(***************************************************************************)
Severities == {"low", "medium", "high", "critical"}

\* DefectDetector._get_severity_value
_get_severity_value(severity) ==
  CASE severity = "low"      -> 1
    [] severity = "medium"   -> 2
    [] severity = "high"     -> 3
    [] severity = "critical" -> 4
    [] OTHER                 -> 0

\* Severity[config.get("reporting", {}).get("severity_filter", "medium").upper()]
MinSeverity(config) == DictGet(config.reporting, "severity_filter", "medium")

\* the resolution with the two defaults exchanged
ResolveThreshold_swapped(thresholds, pattern_name) ==
  DictGet(thresholds,
          IF pattern_name = "long_function" THEN "function_length" ELSE "cyclomatic_complexity",
          IF pattern_name = "long_function" THEN 10 ELSE 50)

\* thresholds.get("function_length" if long_function else "cyclomatic_complexity",
\*                50 if long_function else 10)
ResolveThreshold(thresholds, pattern_name) ==
  DictGet(thresholds,
          IF pattern_name = "long_function" THEN "function_length" ELSE "cyclomatic_complexity",
          IF pattern_name = "long_function" THEN 50 ELSE 10)

(***************************************************************************)
(* A detector call may raise.  fault names the calls that do: those of     *)
(* rule fault.rule on the node of index fault.node, or on every node when  *)
(* fault.node = 0; NoFault when none does.                                 *)
(***************************************************************************)
NoFault == [rule |-> "", node |-> 0]

Raises(fault, pattern_name, idx) ==
  /\ fault.rule = pattern_name
  /\ fault.node \in {0, idx}

\* the body of the try: the detector called on one node, with the resolved
\* threshold for the two rules that take one
RunDetector(parser, config, fault, pattern_name, idx) ==
  IF Raises(fault, pattern_name, idx)
  THEN [raised |-> TRUE, result |-> <<>>]
  ELSE [raised |-> FALSE,
        result |->
          IF pattern_name \in {"long_function", "high_complexity"}
          THEN Call4(PATTERNS[pattern_name].detector, parser.ast_tree[idx],
                     parser.file_path, parser,
                     ResolveThreshold(config.thresholds, pattern_name))
          ELSE Call3(PATTERNS[pattern_name].detector, parser.ast_tree[idx],
                     parser.file_path, parser)]

\* the call without the except clause: the exception leaves the loop
TryDetector_reraise(parser, config, fault, pattern_name, idx) ==
  RunDetector(parser, config, fault, pattern_name, idx)

\* try: ... except Exception: continue
TryDetector(parser, config, fault, pattern_name, idx) ==
  LET r == RunDetector(parser, config, fault, pattern_name, idx)
  IN  IF r.raised THEN [raised |-> FALSE, result |-> <<>>] ELSE r

\* for pattern_name in self.enabled_patterns: if pattern_name in PATTERNS: ...
\* from the k-th enabled pattern on; raised when an exception leaves the loop
RECURSIVE NodeDefectsFrom(_, _, _, _, _)
NodeDefectsFrom(parser, config, fault, idx, k) ==
  IF k > Len(config.enabled) THEN [raised |-> FALSE, defects |-> <<>>]
  ELSE IF config.enabled[k] \notin DOMAIN PATTERNS
       THEN NodeDefectsFrom(parser, config, fault, idx, k + 1)
       ELSE LET r == TryDetector(parser, config, fault, config.enabled[k], idx)
            IN  IF r.raised THEN [raised |-> TRUE, defects |-> <<>>]
                ELSE LET rest == NodeDefectsFrom(parser, config, fault, idx, k + 1)
                     IN  [raised |-> rest.raised, defects |-> r.result \o rest.defects]

_detect_node_defects(parser, config, fault, idx) ==
  NodeDefectsFrom(parser, config, fault, idx, 1)

\* for node in ast.walk(self.parser.ast_tree): all_defects.extend(...);
\* raised when the call on some node raises (the loop is then left)
\* (the nodes of index lo..hi, split in halves)
RECURSIVE WalkDefects(_, _, _, _, _)
WalkDefects(parser, config, fault, lo, hi) ==
  IF lo > hi THEN [raised |-> FALSE, defects |-> <<>>]
  ELSE IF lo = hi THEN _detect_node_defects(parser, config, fault, lo)
  ELSE LET first == WalkDefects(parser, config, fault, lo, (lo + hi) \div 2)
       IN  IF first.raised THEN [raised |-> TRUE, defects |-> <<>>]
           ELSE LET rest == WalkDefects(parser, config, fault, (lo + hi) \div 2 + 1, hi)
                IN  [raised |-> rest.raised,
                     defects |-> IF rest.raised THEN <<>>
                                 ELSE first.defects \o rest.defects]

\* one finding per line of every unused variable
RECURSIVE UnusedVariableDefects(_, _, _)
UnusedVariableDefects(parser, unused, k) ==
  IF k > Len(unused) THEN <<>>
  ELSE [i \in DOMAIN unused[k].lines |->
          Defect("unused_variable", "low", unused[k].lines[i], parser.file_path,
                 unused[k].variable)]
       \o UnusedVariableDefects(parser, unused, k + 1)

_detect_unused_variables(parser) ==
  UnusedVariableDefects(parser, find_unused_variables(parser), 1)

\* the names of one import record that are not read (for an "import" record
\* the text before " as " stands for the name; alias.name holds no " as ",
\* so it is the name itself)
RECURSIVE UnusedImportNames(_, _, _, _)
UnusedImportNames(parser, import_info, used_names, k) ==
  IF k > Len(import_info.names) THEN <<>>
  ELSE (IF import_info.names[k] \notin used_names
        THEN <<Defect("unused_import", "low", import_info.lineno, parser.file_path,
                      import_info.names[k])>>
        ELSE <<>>)
       \o UnusedImportNames(parser, import_info, used_names, k + 1)

RECURSIVE UnusedImportsFrom(_, _, _)
UnusedImportsFrom(parser, used_names, k) ==
  IF k > Len(parser.imports) THEN <<>>
  ELSE UnusedImportNames(parser, parser.imports[k], used_names, 1)
       \o UnusedImportsFrom(parser, used_names, k + 1)

_detect_unused_imports(parser) ==
  UnusedImportsFrom(parser, UsedNames(parser.ast_tree), 1)

\* the special detections run whatever the list enables
SpecialDefects_always(parser, config) ==
  _detect_unused_variables(parser) \o _detect_unused_imports(parser)

\* the special detections of detect_all, each run when its id is enabled
SpecialDefects(parser, config) ==
  (IF "unused_variable" \in Range(config.enabled)
   THEN _detect_unused_variables(parser) ELSE <<>>)
  \o (IF "unused_import" \in Range(config.enabled)
      THEN _detect_unused_imports(parser) ELSE <<>>)

\* the filter with a strict comparison
KeepDefect_strict(defect, min_severity) ==
  _get_severity_value(defect.severity) > _get_severity_value(min_severity)

\* the filter keeping the cutoff's own severity only
KeepDefect_exact(defect, min_severity) ==
  _get_severity_value(defect.severity) = _get_severity_value(min_severity)

\* the severity filter: the findings whose value is at least the cutoff's
KeepDefect(defect, min_severity) ==
  _get_severity_value(defect.severity) >= _get_severity_value(min_severity)

\* [defect for defect in all_defects if value(defect.severity) >= value(min_severity)]
FilterDefects(all, min_severity) ==
  Concat([k \in DOMAIN all |->
            IF KeepDefect(all[k], min_severity) THEN <<all[k]>> ELSE <<>>])

\* DefectDetector.detect_all: what it collected and what it returns, or raised
detect_all(parser, config, fault) ==
  LET walked == WalkDefects(parser, config, fault, 1, Len(parser.ast_tree))
      all    == walked.defects \o SpecialDefects(parser, config)
  IN  IF walked.raised
      THEN [raised |-> TRUE, all_defects |-> <<>>, filtered |-> <<>>]
      ELSE [raised |-> FALSE, all_defects |-> all,
            filtered |-> FilterDefects(all, MinSeverity(config))]

(***************************************************************************)
(* PatternMatcher: the merged registry and match_all.                      *)
(***************************************************************************)
SECURITY_PATTERNS ==
  [id \in {"unsafe_deserialization", "command_injection", "path_traversal",
           "weak_cryptography", "insecure_random", "potential_xxe"} |->
     [severity |-> IF id \in {"unsafe_deserialization", "command_injection"}
                   THEN "critical" ELSE "high",
      detector |-> id]]

PERFORMANCE_PATTERNS ==
  [id \in {"deep_nested_loops", "string_concat_in_loop", "loop_invariant_code",
           "complex_list_comprehension", "frequent_global_access",
           "inefficient_membership_test", "unnecessary_copy"} |->
     [severity |-> IF id \in {"deep_nested_loops", "string_concat_in_loop",
                              "inefficient_membership_test"}
                   THEN "medium" ELSE "low",
      detector |-> id]]

\* the dictionaries PATTERNS, SECURITY_PATTERNS and PERFORMANCE_PATTERNS as
\* PatternMatcher imports them.  type is the Python type of an entry: the
\* base entries are dict literals, the others are instances of the
\* SecurityPattern and PerformancePattern dataclasses
ShippedRuleSets ==
  LET Entries(rule_set, type) ==
        [id \in DOMAIN rule_set |->
           [type |-> type, severity |-> rule_set[id].severity,
            detector |-> rule_set[id].detector]]
  IN  [PATTERNS |-> Entries(PATTERNS, "dict"),
       SECURITY_PATTERNS |-> Entries(SECURITY_PATTERNS, "SecurityPattern"),
       PERFORMANCE_PATTERNS |-> Entries(PERFORMANCE_PATTERNS, "PerformancePattern")]

\* PatternMatcher.__init__ and _load_patterns over the given dictionaries:
\* self.patterns = {} and three dict.update calls, a later one replacing an
\* earlier entry of the same id
LoadPatterns(sets) ==
  LET update(d, other) ==
        [id \in DOMAIN d \cup DOMAIN other |->
           IF id \in DOMAIN other THEN other[id] ELSE d[id]]
  IN  update(update(sets.PATTERNS, sets.SECURITY_PATTERNS), sets.PERFORMANCE_PATTERNS)

\* self.patterns of a PatternMatcher over the dictionaries as shipped
_load_patterns == LoadPatterns(ShippedRuleSets)

\* PatternMatcher.get_pattern_info: None (the empty tuple) for an id the
\* registry lacks; pattern.get raises AttributeError on an entry that is
\* not a dict, before _get_pattern_category is reached; else the dict
\* with name, severity and category, the category being read from the
\* three dictionaries in turn (the description, a text nothing else reads,
\* is left out)
get_pattern_info(sets, self_patterns, pattern_name) ==
  IF pattern_name \notin DOMAIN self_patterns
  THEN [raised |-> FALSE, info |-> <<>>]
  ELSE IF self_patterns[pattern_name].type # "dict"
  THEN [raised |-> TRUE, info |-> <<>>]
  ELSE [raised |-> FALSE,
        info |-> [name |-> pattern_name,
                  severity |-> self_patterns[pattern_name].severity,
                  category |->
                    IF pattern_name \in DOMAIN sets.PATTERNS THEN "basic"
                    ELSE IF pattern_name \in DOMAIN sets.SECURITY_PATTERNS THEN "security"
                    ELSE IF pattern_name \in DOMAIN sets.PERFORMANCE_PATTERNS
                    THEN "performance"
                    ELSE "other"]]

\* the body of match_all's try: pattern['detector'] raises TypeError on an
\* entry that is not a dict (a dataclass instance is not subscriptable);
\* then detector(node, parser.file_path, parser).  called tells whether the
\* call of the detector was reached
RunMatch(parser, fault, pattern_name, idx) ==
  IF _load_patterns[pattern_name].type # "dict"
  THEN [raised |-> TRUE, called |-> FALSE, result |-> <<>>]
  ELSE IF Raises(fault, pattern_name, idx)
  THEN [raised |-> TRUE, called |-> TRUE, result |-> <<>>]
  ELSE [raised |-> FALSE, called |-> TRUE,
        result |-> Call3(_load_patterns[pattern_name].detector,
                         parser.ast_tree[idx], parser.file_path, parser)]

\* try: ... except Exception: continue
TryMatch(parser, fault, pattern_name, idx) ==
  LET r == RunMatch(parser, fault, pattern_name, idx)
  IN  IF r.raised THEN [raised |-> FALSE, called |-> r.called, result |-> <<>>] ELSE r

PatternMatch(pattern_name, idx, detector_result) ==
  [pattern_name |-> pattern_name, node |-> idx, detector_result |-> detector_result]

\* for pattern_name in enabled_patterns, on the node of index idx
RECURSIVE NodeMatchesFrom(_, _, _, _, _)
NodeMatchesFrom(parser, enabled, fault, idx, k) ==
  IF k > Len(enabled) THEN [raised |-> FALSE, matches |-> <<>>]
  ELSE IF enabled[k] \notin DOMAIN _load_patterns
       THEN NodeMatchesFrom(parser, enabled, fault, idx, k + 1)
       ELSE LET r == TryMatch(parser, fault, enabled[k], idx)
            IN  IF r.raised THEN [raised |-> TRUE, matches |-> <<>>]
                ELSE LET rest == NodeMatchesFrom(parser, enabled, fault, idx, k + 1)
                     IN  [raised |-> rest.raised,
                          matches |-> (IF r.result # <<>>
                                       THEN <<PatternMatch(enabled[k], idx, r.result)>>
                                       ELSE <<>>) \o rest.matches]

\* PatternMatcher.match_all(parser, enabled_patterns): for node in
\* ast.walk(parser.ast_tree), for pattern_name in enabled_patterns
\* (the nodes of index lo..hi, split in halves)
RECURSIVE WalkMatches(_, _, _, _, _)
WalkMatches(parser, enabled, fault, lo, hi) ==
  IF lo > hi THEN [raised |-> FALSE, matches |-> <<>>]
  ELSE IF lo = hi THEN NodeMatchesFrom(parser, enabled, fault, lo, 1)
  ELSE LET first == WalkMatches(parser, enabled, fault, lo, (lo + hi) \div 2)
       IN  IF first.raised THEN [raised |-> TRUE, matches |-> <<>>]
           ELSE LET rest == WalkMatches(parser, enabled, fault, (lo + hi) \div 2 + 1, hi)
                IN  [raised |-> rest.raised,
                     matches |-> IF rest.raised THEN <<>>
                                 ELSE first.matches \o rest.matches]

match_all(parser, enabled, fault) ==
  WalkMatches(parser, enabled, fault, 1, Len(parser.ast_tree))

(***************************************************************************)
(* CallGraphAnalyzer (core/call_graph.py).  The graph is held as its       *)
(* nodes, each with its type attribute, and its set of edges; a name that  *)
(* is None is "".                                                          *)
(***************************************************************************)

\* the loop climbs while the node at hand has a parent attribute
\* (hasattr(parent, 'parent')), up to the nearest FunctionDef, which it
\* prefixes with the name of the nearest ClassDef above it; without the
\* attribute the loop does not run and the result is None
_get_enclosing_function(nodes, i) ==
  LET class_above[j \in 0..Len(nodes)] ==
        IF j = 0 THEN ""
        ELSE IF nodes[j].kind = "ClassDef" THEN nodes[j].name
        ELSE class_above[nodes[j].parent]
      enclosing[j \in 0..Len(nodes)] ==
        IF j = 0 THEN ""
        ELSE IF nodes[j].kind = "FunctionDef"
        THEN IF class_above[nodes[j].parent] # ""
             THEN class_above[nodes[j].parent] \o "." \o nodes[j].name
             ELSE nodes[j].name
        ELSE enclosing[nodes[j].parent]
  IN  IF ParentAttr(nodes[i]) = NoParent THEN ""
      ELSE enclosing[nodes[i].parent]

_extract_callee_name(node) ==
  IF node.func_kind = "Name" THEN node.func_name
  ELSE IF node.func_kind = "Attribute" /\ node.func_value # ""
  THEN node.func_value \o "." \o node.func_name
  ELSE ""

\* self.function_calls after _analyze_calls, as the set of <<caller, callee>>
_analyze_calls(parser) ==
  LET nodes == parser.ast_tree
  IN  {<<_get_enclosing_function(nodes, i), _extract_callee_name(nodes[i])>> :
         i \in {j \in DOMAIN nodes :
                  /\ nodes[j].kind = "Call"
                  /\ _get_enclosing_function(nodes, j) # ""
                  /\ _extract_callee_name(nodes[j]) # ""}}

\* add_node for every function, then for every class and its methods (a
\* second add_node of a name replaces its attributes); add_edge for every
\* recorded call whose callee is a node (add_edge adds a caller that is not
\* yet a node, without attributes)
build_call_graph(parser) ==
  LET adds == [k \in DOMAIN parser.functions |->
                 [name |-> parser.functions[k].name, type |-> "function"]]
              \o Concat([c \in DOMAIN parser.classes |->
                           <<[name |-> parser.classes[c].name, type |-> "class"]>>
                           \o [m \in DOMAIN parser.classes[c].methods |->
                                 [name |-> parser.classes[c].name \o "." \o
                                           parser.classes[c].methods[m].name,
                                  type |-> "method"]]])
      added[k \in 0..Len(adds)] ==
        IF k = 0 THEN <<>>
        ELSE (adds[k].name :> adds[k].type) @@ added[k - 1]
      edges == {e \in _analyze_calls(parser) : e[2] \in DOMAIN added[Len(adds)]}
  IN  [nodes |-> [name \in DOMAIN added[Len(adds)] \cup {e[1] : e \in edges} |->
                    IF name \in DOMAIN added[Len(adds)]
                    THEN added[Len(adds)][name] ELSE ""],
       edges |-> edges]

(***************************************************************************)
(* SymbolicExecutor (core/symbolic_executor.py).                           *)
(*                                                                         *)
(* The values _parse_expression yields are Python numbers (int, bool,      *)
(* float), None, or z3 expressions.  A number is the fraction n/d (d > 0); *)
(* a z3 expression is a term: an operator over argument terms, a variable  *)
(* or a numeral.  The Python operators the executor applies (+, -, *, /,   *)
(* ==, <, ..., bool()) and the z3 functions it calls (And, Or, Not,        *)
(* Solver.add, Solver.check) are computed as Python and z3 compute them,   *)
(* an exception included.                                                  *)
(***************************************************************************)
\* a z3 expression: a variable ("var"), a numeral ("num", "real", "true",
\* "false") or the application of an operator to args
Term(op, name, n, d, args) == [op |-> op, name |-> name, n |-> n, d |-> d, args |-> args]

\* z3.IntVal(n)
IntVal(n) == Term("num", "", n, 1, <<>>)

\* the sort of a z3 expression
RECURSIVE SortOf(_)
SortOf(t) ==
  IF t.op \in {"true", "false", "==", "!=", "<", "<=", ">", ">=", "and", "or", "not"}
  THEN "Bool"
  ELSE IF t.op = "real" THEN "Real"
  ELSE IF t.op \in {"var", "num", "ite"} THEN "Int"
  ELSE IF \E i \in DOMAIN t.args : SortOf(t.args[i]) = "Real" THEN "Real"
  ELSE "Int"

\* a Python value of type k: "None", "int", "bool" (n is 1 or 0), "float",
\* "str"
Py(k, n, d) == [k |-> k, n |-> n, d |-> d, e |-> IntVal(0)]

None == Py("None", 0, 1)

\* a z3 expression as a Python value
Z3Expr(e) == [k |-> "z3", n |-> 0, d |-> 1, e |-> e]

\* isinstance(value, (int, float, bool))
IsPython(v) == v.k \in {"int", "bool", "float"}

\* the outcome of an operation that raised nothing (exc names the
\* exception of one that did)
Value(v) == [val |-> v, exc |-> ""]

\* z3's _py2expr: a Python number as a numeral
_py2expr(v) ==
  IF v.k = "z3" THEN v.e
  ELSE IF v.k = "bool" THEN Term(IF v.n = 1 THEN "true" ELSE "false", "", 0, 1, <<>>)
  ELSE IF v.k = "int" THEN IntVal(v.n)
  ELSE Term("real", "", v.n, v.d, <<>>)

\* z3's coercion of an operand to the arithmetic sort of the operation:
\* a Bool beside an arithmetic operand becomes If(b, 1, 0)
ToArith(t) ==
  IF SortOf(t) = "Bool" THEN Term("ite", "", 0, 1, <<t, IntVal(1), IntVal(0)>>) ELSE t

\* z3's _coerce_exprs: both operands in one sort
_coerce_exprs(l, r) ==
  LET a == _py2expr(l)
      b == _py2expr(r)
  IN  IF SortOf(a) = "Bool" /\ SortOf(b) = "Bool" THEN <<a, b>>
      ELSE <<ToArith(a), ToArith(b)>>

\* Python's left + right, left - right, left * right and left / right.  Of
\* two numbers the quotient is a float, ZeroDivisionError on a zero
\* divisor; with a z3 operand the result is z3's expression
Arith(op, l, r) ==
  IF IsPython(l) /\ IsPython(r)
  THEN LET n == CASE op = "+" -> l.n * r.d + r.n * l.d
                  [] op = "-" -> l.n * r.d - r.n * l.d
                  [] op = "*" -> l.n * r.n
                  [] op = "/" -> l.n * r.d
           d == IF op = "/" THEN l.d * r.n ELSE l.d * r.d
       IN  IF op = "/" /\ r.n = 0 THEN [val |-> None, exc |-> "ZeroDivisionError"]
           ELSE IF op = "/" \/ l.k = "float" \/ r.k = "float"
           THEN Value(Py("float", IF d < 0 THEN -n ELSE n, IF d < 0 THEN -d ELSE d))
           ELSE Value(Py("int", n, 1))
  ELSE LET c == _coerce_exprs(l, r)
       IN  Value(Z3Expr(Term(op, "", 0, 1, <<ToArith(c[1]), ToArith(c[2])>>)))

\* the comparison of two fractions
CompareNumbers(op, l, r) ==
  LET a == l.n * r.d
      b == r.n * l.d
  IN  CASE op = "==" -> a = b
        [] op = "!=" -> a # b
        [] op = "<"  -> a < b
        [] op = "<=" -> a <= b
        [] op = ">"  -> a > b
        [] op = ">=" -> a >= b

\* Python's left == right, left != right, left < right, ...
Comparison(op, l, r) ==
  IF IsPython(l) /\ IsPython(r)
  THEN Value(Py("bool", IF CompareNumbers(op, l, r) THEN 1 ELSE 0, 1))
  ELSE LET c == _coerce_exprs(l, r)
       IN  IF op \in {"==", "!="} THEN Value(Z3Expr(Term(op, "", 0, 1, c)))
           ELSE Value(Z3Expr(Term(op, "", 0, 1, <<ToArith(c[1]), ToArith(c[2])>>)))

\* z3's BoolSort().cast: a Python bool or a Bool expression, else Z3Exception
IsBoolean(v) == v.k = "bool" \/ (v.k = "z3" /\ SortOf(v.e) = "Bool")

\* z3.Not(a)
Not(v) ==
  IF IsBoolean(v) THEN Value(Z3Expr(Term("not", "", 0, 1, <<_py2expr(v)>>)))
  ELSE [val |-> None, exc |-> "Z3Exception"]

\* bool(value), as `if value:` takes it.  AstRef.__bool__ of z3: true and
\* false are themselves, an equality of two arguments is their structural
\* equality, and any other expression raises Z3Exception ("Symbolic
\* expressions cannot be cast to concrete Boolean values")
Truthy(v) ==
  IF v.k = "None" THEN [val |-> FALSE, exc |-> ""]
  ELSE IF IsPython(v) THEN [val |-> v.n # 0, exc |-> ""]
  ELSE IF v.e.op = "true" THEN [val |-> TRUE, exc |-> ""]
  ELSE IF v.e.op = "false" THEN [val |-> FALSE, exc |-> ""]
  ELSE IF v.e.op = "==" THEN [val |-> v.e.args[1] = v.e.args[2], exc |-> ""]
  ELSE [val |-> FALSE, exc |-> "Z3Exception"]

\* the integers a solver query looks for a model in: -SolverBound..SolverBound
SolverBound == 2

\* the variables of a z3 expression
RECURSIVE VarsOf(_)
VarsOf(t) ==
  IF t.op = "var" THEN {t.name}
  ELSE UNION {VarsOf(t.args[i]) : i \in DOMAIN t.args}

\* the value of a z3 expression under an assignment of its variables: a
\* fraction, or a truth value for a Bool.  z3 leaves x / 0 free; it is 0
\* here (no input below puts a quotient in an assertion other than as the
\* divisor compared with 0)
RECURSIVE Eval(_, _)
Eval(t, env) ==
  CASE t.op = "var" -> [n |-> env[t.name], d |-> 1]
    [] t.op \in {"num", "real"} -> [n |-> t.n, d |-> t.d]
    [] t.op = "true" -> TRUE
    [] t.op = "false" -> FALSE
    [] t.op = "not" -> ~Eval(t.args[1], env)
    [] t.op = "and" -> Eval(t.args[1], env) /\ Eval(t.args[2], env)
    [] t.op = "or" -> Eval(t.args[1], env) \/ Eval(t.args[2], env)
    [] t.op = "ite" ->
         IF Eval(t.args[1], env) THEN Eval(t.args[2], env) ELSE Eval(t.args[3], env)
    [] t.op = "neg" ->
         LET a == Eval(t.args[1], env) IN [n |-> -a.n, d |-> a.d]
    [] t.op \in {"==", "!=", "<", "<=", ">", ">="} ->
         IF SortOf(t.args[1]) = "Bool"
         THEN IF t.op = "==" THEN Eval(t.args[1], env) = Eval(t.args[2], env)
              ELSE Eval(t.args[1], env) # Eval(t.args[2], env)
         ELSE CompareNumbers(t.op, Eval(t.args[1], env), Eval(t.args[2], env))
    [] OTHER ->
         LET a == Eval(t.args[1], env)
             b == Eval(t.args[2], env)
         IN  CASE t.op = "+" -> [n |-> a.n * b.d + b.n * a.d, d |-> a.d * b.d]
               [] t.op = "-" -> [n |-> a.n * b.d - b.n * a.d, d |-> a.d * b.d]
               [] t.op = "*" -> [n |-> a.n * b.n, d |-> a.d * b.d]
               [] t.op = "/" ->
                    IF b.n = 0 THEN [n |-> 0, d |-> 1]
                    ELSE IF SortOf(t) = "Int"
                    THEN [n |-> IF b.n > 0 THEN a.n \div b.n ELSE -(a.n \div (-b.n)),
                          d |-> 1]
                    ELSE IF b.n > 0 THEN [n |-> a.n * b.d, d |-> a.d * b.n]
                    ELSE [n |-> -(a.n * b.d), d |-> -(a.d * b.n)]

\* Solver.check() over the assertions of every frame, when z3 decides the
\* query; it may also give up and answer unknown (a resource limit, a
\* fragment it does not decide): self.unknown names the queries on which
\* it does
check(solver) ==
  LET assertions == Concat(solver)
      names == UNION {VarsOf(assertions[i]) : i \in DOMAIN assertions}
  IN  IF \E env \in [names -> (-SolverBound)..SolverBound] :
           \A i \in DOMAIN assertions : Eval(assertions[i], env)
      THEN "sat" ELSE "unsat"

\* Solver(): one frame, no assertion; Solver.reset() leaves the same
NewSolver == << <<>> >>

\* an entry of the executor's log of what it did to the constraint stack
\* and asked the solver: the constraint, the stack afterwards, the answer
Event(kind, constraint, stack, result) ==
  [kind |-> kind, constraint |-> constraint, stack |-> stack, result |-> result]

\* the executor with the exception that leaves the running call
Raised(self, exc) == [self EXCEPT !.exc = exc]

\* self.solver.add(constraint): the constraint joins the top frame;
\* Z3Exception if it is no Boolean
SolverAdd(self, constraint) ==
  IF self.exc # "" THEN self
  ELSE IF ~IsBoolean(constraint) THEN Raised(self, "Z3Exception")
  ELSE [self EXCEPT !.solver[Len(self.solver)] = Append(@, _py2expr(constraint))]

\* for constraint in self.path_constraints: self.solver.add(constraint)
RECURSIVE AddPathConstraints(_, _)
AddPathConstraints(self, k) ==
  IF k > Len(self.path_constraints) THEN self
  ELSE AddPathConstraints(SolverAdd(self, self.path_constraints[k]), k + 1)

\* self.path_constraints.append(constraint)
PushConstraint(self, constraint) ==
  IF self.exc # "" THEN self
  ELSE LET stack == Append(self.path_constraints, constraint)
       IN  [self EXCEPT !.path_constraints = stack,
                        !.events = Append(@, Event("push", constraint, stack, ""))]

\* self.path_constraints.pop(): the last element goes, whoever appended it
PopConstraint(self) ==
  IF self.exc # "" THEN self
  ELSE IF self.path_constraints = <<>> THEN Raised(self, "IndexError")
  ELSE LET n == Len(self.path_constraints)
           stack == SubSeq(self.path_constraints, 1, n - 1)
       IN  [self EXCEPT !.path_constraints = stack,
                        !.events = Append(@, Event("pop", self.path_constraints[n],
                                                   stack, ""))]

\* a check that never calls solver.pop()
_check_division_by_zero_leaky(self, divisor, line) ==
  LET zero == Comparison("==", divisor, Py("int", 0, 1)).val
      added == SolverAdd(AddPathConstraints([self EXCEPT !.solver = Append(@, <<>>)], 1),
                         zero)
      result == IF "check_division" \in self.unknown THEN "unknown"
                ELSE check(added.solver)
  IN  IF added.exc # "" THEN added
      ELSE [added EXCEPT
              !.defects = IF result = "sat"
                          THEN Append(@, Defect("division_by_zero_symbolic", "high",
                                                line, added.file_path, ""))
                          ELSE @,
              !.events = Append(@, Event("check_division", zero,
                                         added.path_constraints, result))]

\* SymbolicExecutor._check_division_by_zero: solver.push(), the path
\* constraints and `divisor == 0` are added, and on sat the defect is
\* appended; solver.pop().  An exception of solver.add leaves the method
\* before solver.pop()
_check_division_by_zero(self, divisor, line) ==
  LET zero == Comparison("==", divisor, Py("int", 0, 1)).val
      added == SolverAdd(AddPathConstraints([self EXCEPT !.solver = Append(@, <<>>)], 1),
                         zero)
      result == IF "check_division" \in self.unknown THEN "unknown"
                ELSE check(added.solver)
  IN  IF added.exc # "" THEN added
      ELSE [added EXCEPT
              !.defects = IF result = "sat"
                          THEN Append(@, Defect("division_by_zero_symbolic", "high",
                                                line, added.file_path, ""))
                          ELSE @,
              !.events = Append(@, Event("check_division", zero,
                                         added.path_constraints, result)),
              !.solver = SubSeq(@, 1, Len(@) - 1)]

\* a check that reports whatever the solver does not find satisfiable
_check_path_constraints_hasty(self) ==
  LET added == AddPathConstraints(self, 1)
      result == IF "check_path" \in self.unknown THEN "unknown"
                ELSE check(added.solver)
  IN  IF added.exc # "" THEN added
      ELSE [added EXCEPT
              !.defects = IF result # "sat"
                          THEN Append(@, Defect("unreachable_code", "medium", 0,
                                                added.file_path, ""))
                          ELSE @,
              !.events = Append(@, Event("check_path", None, added.path_constraints,
                                         result)),
              !.solver = NewSolver]

\* SymbolicExecutor._check_path_constraints: the path constraints are
\* added, on unsat the defect is appended; solver.reset()
_check_path_constraints(self) ==
  LET added == AddPathConstraints(self, 1)
      result == IF "check_path" \in self.unknown THEN "unknown"
                ELSE check(added.solver)
  IN  IF added.exc # "" THEN added
      ELSE [added EXCEPT
              !.defects = IF result = "unsat"
                          THEN Append(@, Defect("unreachable_code", "medium", 0,
                                                added.file_path, ""))
                          ELSE @,
              !.events = Append(@, Event("check_path", None, added.path_constraints,
                                         result)),
              !.solver = NewSolver]

\* what an expression handler gives back: the value and the executor
Parsed(val, self) == [val |-> val, self |-> self]

\* the result of an operator, or its exception on the executor
Returned(outcome, self) ==
  IF outcome.exc # "" THEN Parsed(None, Raised(self, outcome.exc))
  ELSE Parsed(outcome.val, self)

\* the Python or z3 operator an ast operator type stands for
Operators ==
  [Add |-> "+", Sub |-> "-", Mult |-> "*", Div |-> "/",
   Eq |-> "==", NotEq |-> "!=", Lt |-> "<", LtE |-> "<=", Gt |-> ">", GtE |-> ">=",
   And |-> "and", Or |-> "or"]

RECURSIVE _parse_expression(_, _)

\* _analyze_binary_operation once both operands are parsed; the quotient
\* is returned after the check.  A BinOp carries no comparison or boolean
\* operator, so the branches on them are never taken
BinaryOperation(left, right, node) ==
  LET checked == _check_division_by_zero(right.self, right.val, node.lineno)
  IN  IF right.self.exc # "" \/ left.val.k = "None" \/ right.val.k = "None"
      THEN Parsed(None, right.self)
      ELSE IF node.op \in {"Add", "Sub", "Mult"}
      THEN Returned(Arith(Operators[node.op], left.val, right.val), right.self)
      ELSE IF node.op # "Div" THEN Parsed(None, right.self)
      ELSE IF checked.exc # "" THEN Parsed(None, checked)
      ELSE Returned(Arith("/", left.val, right.val), checked)

\* right = self._parse_expression(node.right)
BinaryRight(left, node) ==
  IF left.self.exc # "" THEN left
  ELSE BinaryOperation(left, _parse_expression(left.self, node.right), node)

\* SymbolicExecutor._analyze_binary_operation
_analyze_binary_operation(self, node) ==
  BinaryRight(_parse_expression(self, node.left), node)

\* _analyze_comparison once both operands are parsed
ComparisonOf(left, right, node) ==
  IF right.self.exc # "" \/ left.val.k = "None" \/ right.val.k = "None"
  THEN Parsed(None, right.self)
  ELSE IF node.ops[1] \in {"Eq", "NotEq", "Lt", "LtE", "Gt", "GtE"}
  THEN Returned(Comparison(Operators[node.ops[1]], left.val, right.val), right.self)
  ELSE Parsed(None, right.self)

\* right = self._parse_expression(node.comparators[0])
ComparisonRight(left, node) ==
  IF left.self.exc # "" THEN left
  ELSE ComparisonOf(left, _parse_expression(left.self, node.comparators[1]), node)

\* SymbolicExecutor._analyze_comparison
_analyze_comparison(self, node) ==
  IF Len(node.ops) # 1 \/ Len(node.comparators) # 1 THEN Parsed(None, self)
  ELSE ComparisonRight(_parse_expression(self, node.left), node)

\* [self._parse_expression(v) for v in node.values[k:]]: parsed holds what
\* the calls so far gave back, after the executor the first call is made on
RECURSIVE ParseValues(_, _, _)
ParseValues(parsed, values, k) ==
  IF k > Len(values) \/ parsed[Len(parsed)].self.exc # "" THEN parsed
  ELSE ParseValues(Append(parsed,
                          _parse_expression(parsed[Len(parsed)].self, values[k])),
                   values, k + 1)

\* result = And(result, v) (or Or) for v in values[k:]; z3's And and Or
\* take Boolean arguments and raise Z3Exception on any other
RECURSIVE FoldValues(_, _, _, _)
FoldValues(op, result, values, k) ==
  IF k > Len(values) THEN Value(result)
  ELSE IF ~(IsBoolean(result) /\ IsBoolean(values[k]))
  THEN [val |-> None, exc |-> "Z3Exception"]
  ELSE FoldValues(op,
                  Z3Expr(Term(op, "", 0, 1, <<_py2expr(result), _py2expr(values[k])>>)),
                  values, k + 1)

\* _analyze_boolean_operation once the values are parsed: those that are
\* None are dropped
BooleanOperation(parsed, node) ==
  LET self == parsed[Len(parsed)].self
      values == SelectSeq([i \in DOMAIN parsed |-> parsed[i].val],
                          LAMBDA v : v.k # "None")
  IN  IF self.exc # "" \/ values = <<>> \/ node.op \notin {"And", "Or"}
      THEN Parsed(None, self)
      ELSE Returned(FoldValues(Operators[node.op], values[1], values, 2), self)

\* SymbolicExecutor._analyze_boolean_operation
_analyze_boolean_operation(self, node) ==
  BooleanOperation(ParseValues(<<Parsed(None, self)>>, node.values, 1), node)

\* _analyze_unary_operation once the operand is parsed.  Python's -operand
\* is the number negated, z3's negation of an arithmetic expression, and
\* TypeError on a Bool expression
UnaryOperation(operand, node) ==
  IF operand.self.exc # "" \/ operand.val.k = "None" THEN Parsed(None, operand.self)
  ELSE IF node.op = "Not" THEN Returned(Not(operand.val), operand.self)
  ELSE IF node.op # "USub" THEN Parsed(None, operand.self)
  ELSE IF IsPython(operand.val)
  THEN Parsed(Py(IF operand.val.k = "float" THEN "float" ELSE "int",
                 -operand.val.n, operand.val.d), operand.self)
  ELSE IF SortOf(operand.val.e) = "Bool"
  THEN Parsed(None, Raised(operand.self, "TypeError"))
  ELSE Parsed(Z3Expr(Term("neg", "", 0, 1, <<operand.val.e>>)), operand.self)

\* SymbolicExecutor._analyze_unary_operation
_analyze_unary_operation(self, node) ==
  UnaryOperation(_parse_expression(self, node.operand), node)

\* SymbolicExecutor._parse_expression
_parse_expression(self, node) ==
  IF node.kind = "Constant"
  THEN Parsed(IF IsPython(node.value) THEN node.value ELSE None, self)
  ELSE IF node.kind = "Name"
  THEN Parsed(IF node.id \in DOMAIN self.variables
              THEN Z3Expr(self.variables[node.id].z3_var) ELSE None, self)
  ELSE IF node.kind = "BinOp" THEN _analyze_binary_operation(self, node)
  ELSE IF node.kind = "Compare" THEN _analyze_comparison(self, node)
  ELSE IF node.kind = "BoolOp" THEN _analyze_boolean_operation(self, node)
  ELSE IF node.kind = "UnaryOp" THEN _analyze_unary_operation(self, node)
  ELSE Parsed(None, self)

RECURSIVE _traverse_ast(_, _, _)

\* for stmt in stmts[k:]: self._traverse_ast(stmt, depth)
RECURSIVE TraverseAll(_, _, _, _)
TraverseAll(self, stmts, depth, k) ==
  IF k > Len(stmts) \/ self.exc # "" THEN self
  ELSE TraverseAll(_traverse_ast(self, stmts[k], depth), stmts, depth, k + 1)

\* self.path_constraints.append(constraint); the statements are traversed
\* one level down; self.path_constraints.pop()
Branch(self, constraint, stmts, depth) ==
  PopConstraint(TraverseAll(PushConstraint(self, constraint), stmts, depth + 1, 1))

\* `if node.orelse:` after the then branch: the else branch, under
\* Not(condition)
AfterThen(self, condition, node, depth) ==
  LET negated == Not(condition)
  IN  IF self.exc # "" \/ node.orelse = <<>> THEN self
      ELSE IF negated.exc # "" THEN Raised(self, negated.exc)
      ELSE Branch(self, negated.val, node.orelse, depth)

\* `if condition:` of _analyze_if_statement, on the truth of the parsed
\* condition
IfCondition(condition, node, depth) ==
  LET holds == Truthy(condition.val)
  IN  IF condition.self.exc # "" THEN condition.self
      ELSE IF holds.exc # "" THEN Raised(condition.self, holds.exc)
      ELSE IF ~holds.val THEN condition.self
      ELSE AfterThen(Branch(condition.self, condition.val, node.body, depth),
                     condition.val, node, depth)

\* SymbolicExecutor._analyze_if_statement
_analyze_if_statement(self, node, depth) ==
  IfCondition(_parse_expression(self, node.test), node, depth)

\* `if condition:` of _analyze_while_loop: the constraint is appended and
\* node.body[:3] traversed
WhileCondition(condition, node, depth) ==
  LET holds == Truthy(condition.val)
  IN  IF condition.self.exc # "" THEN condition.self
      ELSE IF holds.exc # "" THEN Raised(condition.self, holds.exc)
      ELSE IF ~holds.val THEN condition.self
      ELSE Branch(condition.self, condition.val,
                  SubSeq(node.body, 1, IF Len(node.body) < 3 THEN Len(node.body) ELSE 3),
                  depth)

\* SymbolicExecutor._analyze_while_loop
_analyze_while_loop(self, node, depth) ==
  WhileCondition(_parse_expression(self, node.test), node, depth)

\* `if value and var_name in self.variables:` takes the truth of the value
\* first; the constraint variable == value is appended and stays
AssignTarget(value, var_name) ==
  LET holds == Truthy(value.val)
  IN  IF value.self.exc # "" THEN value.self
      ELSE IF holds.exc # "" THEN Raised(value.self, holds.exc)
      ELSE IF holds.val /\ var_name \in DOMAIN value.self.variables
      THEN PushConstraint(value.self,
                          Comparison("==", Z3Expr(value.self.variables[var_name].z3_var),
                                     value.val).val)
      ELSE value.self

\* _analyze_assignment from target k on: the value is parsed for every
\* target that is a Name
RECURSIVE AssignTargets(_, _, _)
AssignTargets(self, node, k) ==
  IF k > Len(node.targets) \/ self.exc # "" THEN self
  ELSE IF node.targets[k].kind # "Name" THEN AssignTargets(self, node, k + 1)
  ELSE AssignTargets(AssignTarget(_parse_expression(self, node.value),
                                  node.targets[k].id),
                     node, k + 1)

\* SymbolicExecutor._analyze_assignment
_analyze_assignment(self, node) == AssignTargets(self, node, 1)

\* a traversal that never looks at its depth
_traverse_ast_unbounded(self, node, depth) ==
  IF self.exc # "" THEN self
  ELSE IF node.kind = "If" THEN _analyze_if_statement(self, node, depth)
  ELSE IF node.kind = "While" THEN _analyze_while_loop(self, node, depth)
  ELSE IF node.kind = "Assign" THEN _analyze_assignment(self, node)
  ELSE IF node.kind = "BinOp" THEN _analyze_binary_operation(self, node).self
  ELSE IF node.kind = "Compare" THEN _analyze_comparison(self, node).self
  ELSE self

\* SymbolicExecutor._traverse_ast: nothing is done beyond max_depth, and
\* nothing for a node that is no If, While, Assign, BinOp or Compare
_traverse_ast(self, node, depth) ==
  IF self.exc # "" \/ depth > self.max_depth THEN self
  ELSE IF node.kind = "If" THEN _analyze_if_statement(self, node, depth)
  ELSE IF node.kind = "While" THEN _analyze_while_loop(self, node, depth)
  ELSE IF node.kind = "Assign" THEN _analyze_assignment(self, node)
  ELSE IF node.kind = "BinOp" THEN _analyze_binary_operation(self, node).self
  ELSE IF node.kind = "Compare" THEN _analyze_comparison(self, node).self
  ELSE self

\* SymbolicExecutor._create_symbolic_variable(name, 'int'): the variable
\* z3.Int(name)
_create_symbolic_variable(name) ==
  [name |-> name, z3_var |-> Term("var", name, 0, 1, <<>>), type |-> "int"]

(***************************************************************************)
(* The inputs of a symbolic analysis.                                      *)
(*                                                                         *)
(* SymbolicExecutor reads parser.functions and parser.file_path.  The      *)
(* FunctionInfo objects ASTParser builds carry the FunctionDef node as     *)
(* body; FunctionInfo is a public dataclass, and the executor is also      *)
(* given functions whose body is a statement or an expression, which is    *)
(* how its handlers are reached.                                           *)
(***************************************************************************)
\* FunctionInfo(name=..., args=..., body=...)
FunctionInfo(name, args, body) == [name |-> name, args |-> args, body |-> body]

\* FunctionInfo objects whose body is a statement or an expression of a
\* function (or None), with the source text of the body
HandBuilt ==
  [
   \*     a = 1
   assign_one |->
     FunctionInfo("assign_one", <<"a">>,
       [kind |-> "Assign", targets |-> <<[kind |-> "Name", id |-> "a"]>>,
        value |-> [kind |-> "Constant", value |-> Py("int", 1, 1)]]),
   \*     a = 0
   assign_zero |->
     FunctionInfo("assign_zero", <<"a">>,
       [kind |-> "Assign", targets |-> <<[kind |-> "Name", id |-> "a"]>>,
        value |-> [kind |-> "Constant", value |-> Py("int", 0, 1)]]),
   \*     a = b
   assign_name |->
     FunctionInfo("assign_name", <<"a", "b">>,
       [kind |-> "Assign", targets |-> <<[kind |-> "Name", id |-> "a"]>>,
        value |-> [kind |-> "Name", id |-> "b"]]),
   \*     a = g(1) + 1
   assign_call |->
     FunctionInfo("assign_call", <<"a">>,
       [kind |-> "Assign", targets |-> <<[kind |-> "Name", id |-> "a"]>>,
        value |-> [kind |-> "BinOp", lineno |-> 1, op |-> "Add",
         left |-> [kind |-> "Call"],
         right |-> [kind |-> "Constant", value |-> Py("int", 1, 1)]]]),
   \*     a = b = 1
   assign_twice |->
     FunctionInfo("assign_twice", <<"a", "b">>,
       [kind |-> "Assign", targets |-> <<[kind |-> "Name", id |-> "a"], [kind |-> "Name", id |-> "b"]>>,
        value |-> [kind |-> "Constant", value |-> Py("int", 1, 1)]]),
   \*     if 1 < 2:
   \*         a = 1
   \*     else:
   \*         a = 2
   if_const |->
     FunctionInfo("if_const", <<"a">>,
       [kind |-> "If",
        test |-> [kind |-> "Compare", ops |-> <<"Lt">>,
         left |-> [kind |-> "Constant", value |-> Py("int", 1, 1)],
         comparators |-> <<[kind |-> "Constant", value |-> Py("int", 2, 1)]>>],
        body |-> <<[kind |-> "Assign", targets |-> <<[kind |-> "Name", id |-> "a"]>>,
                    value |-> [kind |-> "Constant", value |-> Py("int", 1, 1)]]>>,
        orelse |-> <<[kind |-> "Assign", targets |-> <<[kind |-> "Name", id |-> "a"]>>,
                      value |-> [kind |-> "Constant", value |-> Py("int", 2, 1)]]>>]),
   \*     if x > 0:
   \*         y = 1
   \*     elif x > 0:
   \*         y = 2
   if_elif |->
     FunctionInfo("if_elif", <<"x">>,
       [kind |-> "If",
        test |-> [kind |-> "Compare", ops |-> <<"Gt">>,
         left |-> [kind |-> "Name", id |-> "x"],
         comparators |-> <<[kind |-> "Constant", value |-> Py("int", 0, 1)]>>],
        body |-> <<[kind |-> "Assign", targets |-> <<[kind |-> "Name", id |-> "y"]>>,
                    value |-> [kind |-> "Constant", value |-> Py("int", 1, 1)]]>>,
        orelse |-> <<[kind |-> "If",
                      test |-> [kind |-> "Compare", ops |-> <<"Gt">>,
                       left |-> [kind |-> "Name", id |-> "x"],
                       comparators |-> <<[kind |-> "Constant", value |-> Py("int", 0, 1)]>>],
                      body |-> <<[kind |-> "Assign", targets |-> <<[kind |-> "Name", id |-> "y"]>>,
                                  value |-> [kind |-> "Constant", value |-> Py("int", 2, 1)]]>>,
                      orelse |-> <<>>]>>]),
   \*     if x == x:
   \*         x = 1
   \*     else:
   \*         x = 2
   if_same |->
     FunctionInfo("if_same", <<"x">>,
       [kind |-> "If",
        test |-> [kind |-> "Compare", ops |-> <<"Eq">>,
         left |-> [kind |-> "Name", id |-> "x"],
         comparators |-> <<[kind |-> "Name", id |-> "x"]>>],
        body |-> <<[kind |-> "Assign", targets |-> <<[kind |-> "Name", id |-> "x"]>>,
                    value |-> [kind |-> "Constant", value |-> Py("int", 1, 1)]]>>,
        orelse |-> <<[kind |-> "Assign", targets |-> <<[kind |-> "Name", id |-> "x"]>>,
                      value |-> [kind |-> "Constant", value |-> Py("int", 2, 1)]]>>]),
   \*     if -1:
   \*         a = 1
   if_int |->
     FunctionInfo("if_int", <<"a">>,
       [kind |-> "If",
        test |-> [kind |-> "UnaryOp", op |-> "USub", operand |-> [kind |-> "Constant", value |-> Py("int", 1, 1)]],
        body |-> <<[kind |-> "Assign", targets |-> <<[kind |-> "Name", id |-> "a"]>>,
                    value |-> [kind |-> "Constant", value |-> Py("int", 1, 1)]]>>,
        orelse |-> <<>>]),
   \*     if not a:
   \*         a = 1
   if_not |->
     FunctionInfo("if_not", <<"a">>,
       [kind |-> "If",
        test |-> [kind |-> "UnaryOp", op |-> "Not", operand |-> [kind |-> "Name", id |-> "a"]],
        body |-> <<[kind |-> "Assign", targets |-> <<[kind |-> "Name", id |-> "a"]>>,
                    value |-> [kind |-> "Constant", value |-> Py("int", 1, 1)]]>>,
        orelse |-> <<>>]),
   \*     if 1 < 2 and g(a):
   \*         pass
   \*     else:
   \*         pass
   if_and |->
     FunctionInfo("if_and", <<"a">>,
       [kind |-> "If",
        test |-> [kind |-> "BoolOp", op |-> "And",
         values |-> <<[kind |-> "Compare", ops |-> <<"Lt">>,
                       left |-> [kind |-> "Constant", value |-> Py("int", 1, 1)],
                       comparators |-> <<[kind |-> "Constant", value |-> Py("int", 2, 1)]>>],
                      [kind |-> "Call"]>>],
        body |-> <<[kind |-> "Pass"]>>,
        orelse |-> <<[kind |-> "Pass"]>>]),
   \*     if a / b == 1:
   \*         a = 1
   if_quotient |->
     FunctionInfo("if_quotient", <<"a", "b">>,
       [kind |-> "If",
        test |-> [kind |-> "Compare", ops |-> <<"Eq">>,
         left |-> [kind |-> "BinOp", lineno |-> 1, op |-> "Div",
          left |-> [kind |-> "Name", id |-> "a"],
          right |-> [kind |-> "Name", id |-> "b"]],
         comparators |-> <<[kind |-> "Constant", value |-> Py("int", 1, 1)]>>],
        body |-> <<[kind |-> "Assign", targets |-> <<[kind |-> "Name", id |-> "a"]>>,
                    value |-> [kind |-> "Constant", value |-> Py("int", 1, 1)]]>>,
        orelse |-> <<>>]),
   \*     if 1 < 2:
   \*         if 2 > 1:
   \*             a = 1
   if_nested |->
     FunctionInfo("if_nested", <<"a">>,
       [kind |-> "If",
        test |-> [kind |-> "Compare", ops |-> <<"Lt">>,
         left |-> [kind |-> "Constant", value |-> Py("int", 1, 1)],
         comparators |-> <<[kind |-> "Constant", value |-> Py("int", 2, 1)]>>],
        body |-> <<[kind |-> "If",
                    test |-> [kind |-> "Compare", ops |-> <<"Gt">>,
                     left |-> [kind |-> "Constant", value |-> Py("int", 2, 1)],
                     comparators |-> <<[kind |-> "Constant", value |-> Py("int", 1, 1)]>>],
                    body |-> <<[kind |-> "Assign", targets |-> <<[kind |-> "Name", id |-> "a"]>>,
                                value |-> [kind |-> "Constant", value |-> Py("int", 1, 1)]]>>,
                    orelse |-> <<>>]>>,
        orelse |-> <<>>]),
   \*     while True:
   \*         a = 1
   \*         a = 2
   \*         a = 3
   \*         a = 4
   while_true |->
     FunctionInfo("while_true", <<"a">>,
       [kind |-> "While",
        test |-> [kind |-> "Constant", value |-> Py("bool", 1, 1)],
        body |-> <<[kind |-> "Assign", targets |-> <<[kind |-> "Name", id |-> "a"]>>,
                    value |-> [kind |-> "Constant", value |-> Py("int", 1, 1)]],
                   [kind |-> "Assign", targets |-> <<[kind |-> "Name", id |-> "a"]>>,
                    value |-> [kind |-> "Constant", value |-> Py("int", 2, 1)]],
                   [kind |-> "Assign", targets |-> <<[kind |-> "Name", id |-> "a"]>>,
                    value |-> [kind |-> "Constant", value |-> Py("int", 3, 1)]],
                   [kind |-> "Assign", targets |-> <<[kind |-> "Name", id |-> "a"]>>,
                    value |-> [kind |-> "Constant", value |-> Py("int", 4, 1)]]>>]),
   \*     while True:
   \*         b = 1
   \*         if a / b == 0:
   \*             pass
   while_guard |->
     FunctionInfo("while_guard", <<"a", "b">>,
       [kind |-> "While",
        test |-> [kind |-> "Constant", value |-> Py("bool", 1, 1)],
        body |-> <<[kind |-> "Assign", targets |-> <<[kind |-> "Name", id |-> "b"]>>,
                    value |-> [kind |-> "Constant", value |-> Py("int", 1, 1)]],
                   [kind |-> "If",
                    test |-> [kind |-> "Compare", ops |-> <<"Eq">>,
                     left |-> [kind |-> "BinOp", lineno |-> 3, op |-> "Div",
                      left |-> [kind |-> "Name", id |-> "a"],
                      right |-> [kind |-> "Name", id |-> "b"]],
                     comparators |-> <<[kind |-> "Constant", value |-> Py("int", 0, 1)]>>],
                    body |-> <<[kind |-> "Pass"]>>,
                    orelse |-> <<>>]>>]),
   \*     a / b
   binop_div |->
     FunctionInfo("binop_div", <<"a", "b">>,
       [kind |-> "BinOp", lineno |-> 1, op |-> "Div",
        left |-> [kind |-> "Name", id |-> "a"],
        right |-> [kind |-> "Name", id |-> "b"]]),
   \*     a + 1 - 2 * a
   binop_sum |->
     FunctionInfo("binop_sum", <<"a">>,
       [kind |-> "BinOp", lineno |-> 1, op |-> "Sub",
        left |-> [kind |-> "BinOp", lineno |-> 1, op |-> "Add",
         left |-> [kind |-> "Name", id |-> "a"],
         right |-> [kind |-> "Constant", value |-> Py("int", 1, 1)]],
        right |-> [kind |-> "BinOp", lineno |-> 1, op |-> "Mult",
         left |-> [kind |-> "Constant", value |-> Py("int", 2, 1)],
         right |-> [kind |-> "Name", id |-> "a"]]]),
   \*     a < 1 < 2
   compare_lt |->
     FunctionInfo("compare_lt", <<"a">>,
       [kind |-> "Compare", ops |-> <<"Lt", "Lt">>,
        left |-> [kind |-> "Name", id |-> "a"],
        comparators |-> <<[kind |-> "Constant", value |-> Py("int", 1, 1)], [kind |-> "Constant", value |-> Py("int", 2, 1)]>>]),
   \*     (body=None)
   no_body |->
     FunctionInfo("no_body", <<"a">>,
       [kind |-> "None"]) ]

(***************************************************************************)
(* FileDiv:                                                                *)
(*     1  def f(a, b):                                                     *)
(*     2      return a / b                                                 *)
(* FileElif:                                                               *)
(*     1  def g(x):                                                        *)
(*     2      if x > 0:                                                    *)
(*     3          y = 1                                                    *)
(*     4      elif x > 0:                                                  *)
(*     5          y = 2                                                    *)
(*     6      return 0                                                     *)
(***************************************************************************)
FileDivNodes ==
  << Node("Module", 0, 0, <<>>),
     Node("FunctionDef", 1, 1, [end_lineno |-> 2, name |-> "f", returns |-> FALSE, params |-> <<[arg |-> "a", annotated |-> FALSE], [arg |-> "b", annotated |-> FALSE]>>, src |-> "f"]),
     Node("arguments", 2, 0, <<>>),
     Node("Return", 2, 2, <<>>),
     Node("arg", 3, 1, <<>>),
     Node("arg", 3, 1, <<>>),
     Node("BinOp", 4, 2, [op |-> "Div", right_src |-> "b", src |-> "a / b"]),
     Node("Name", 7, 2, [name |-> "a", ctx |-> "Load", src |-> "a"]),
     Node("Div", 7, 0, <<>>),
     Node("Name", 7, 2, [name |-> "b", ctx |-> "Load", src |-> "b"]),
     Node("Load", 8, 0, <<>>),
     Node("Load", 10, 0, <<>>) >>

FileElifNodes ==
  << Node("Module", 0, 0, <<>>),
     Node("FunctionDef", 1, 1, [end_lineno |-> 6, name |-> "g", returns |-> FALSE, params |-> <<[arg |-> "x", annotated |-> FALSE]>>, src |-> "g"]),
     Node("arguments", 2, 0, <<>>),
     Node("If", 2, 2, <<>>),
     Node("Return", 2, 6, <<>>),
     Node("arg", 3, 1, <<>>),
     Node("Compare", 4, 2, <<>>),
     Node("Assign", 4, 3, [targets |-> <<[kind |-> "Name", id |-> "y", elts |-> <<>>, keyword |-> FALSE]>>, src |-> "y = 1"]),
     Node("If", 4, 4, <<>>),
     Node("Constant", 5, 6, [is_str |-> FALSE]),
     Node("Name", 7, 2, [name |-> "x", ctx |-> "Load", src |-> "x"]),
     Node("Gt", 7, 0, <<>>),
     Node("Constant", 7, 2, [is_str |-> FALSE]),
     Node("Name", 8, 3, [name |-> "y", ctx |-> "Store", src |-> "y"]),
     Node("Constant", 8, 3, [is_str |-> FALSE]),
     Node("Compare", 9, 4, <<>>),
     Node("Assign", 9, 5, [targets |-> <<[kind |-> "Name", id |-> "y", elts |-> <<>>, keyword |-> FALSE]>>, src |-> "y = 2"]),
     Node("Load", 11, 0, <<>>),
     Node("Store", 14, 0, <<>>),
     Node("Name", 16, 4, [name |-> "x", ctx |-> "Load", src |-> "x"]),
     Node("Gt", 16, 0, <<>>),
     Node("Constant", 16, 4, [is_str |-> FALSE]),
     Node("Name", 17, 5, [name |-> "y", ctx |-> "Store", src |-> "y"]),
     Node("Constant", 17, 5, [is_str |-> FALSE]),
     Node("Load", 20, 0, <<>>),
     Node("Store", 23, 0, <<>>) >>

\* parser.functions as the executor reads them: body is the node itself
FunctionInfos(parser) ==
  [k \in DOMAIN parser.functions |->
     FunctionInfo(parser.functions[k].name, parser.functions[k].args,
                  parser.ast_tree[parser.functions[k].body])]

\* the parsers an executor is constructed on (what it reads of them): one
\* per hand-built function, one with two functions, and the ASTParser of
\* FileDiv and of FileElif
SymbolicParsers ==
  [name \in DOMAIN HandBuilt |->
     [file_path |-> name, functions |-> <<HandBuilt[name]>>]] @@
  [two_functions |->
     [file_path |-> "two_functions",
      functions |-> <<HandBuilt.assign_one, HandBuilt.binop_div>>],
   FileDiv |->
     [file_path |-> "FileDiv",
      functions |-> FunctionInfos(ASTParser(FileDivNodes, "FileDiv"))],
   FileElif |->
     [file_path |-> "FileElif",
      functions |-> FunctionInfos(ASTParser(FileElifNodes, "FileElif"))]]

\* max_depth of SymbolicExecutor.__init__ when the caller gives none
DefaultMaxDepth == 10

\* SymbolicExecutor(parser, max_depth).  events is the log of the session
\* in progress, func the position of analyze's loop over parser.functions,
\* exc the exception that left analyze and unknown the queries
\* ("check_division", "check_path") its solver answers unknown to
SymbolicExecutor(parser, file_path, max_depth) ==
  [parser |-> parser, file_path |-> file_path, max_depth |-> max_depth,
   solver |-> NewSolver, variables |-> <<>>, path_constraints |-> <<>>,
   defects |-> <<>>, events |-> <<>>, func |-> 0, exc |-> "", unknown |-> {}]

\* no executor is constructed
NoExecutor == SymbolicExecutor("", "", 0)

(***************************************************************************)
(* The inputs of a detection run.                                          *)
(***************************************************************************)
\* the longest list of enabled patterns
MaxEnabled == 2

\* the most files a run of the command line finds
MaxFiles == 3

\* the ids a configuration may enable: base patterns of each severity, the
\* two special detections, a security pattern, and an id no registry holds
EnabledUniverse ==
  {"null_dereference", "sql_injection", "missing_type_hints", "long_function",
   "unused_variable", "unused_import", "command_injection", "no_such_pattern"}

\* the lists of distinct ids, and the lists that enable hardcoded_password,
\* resource_leak and high_complexity: each alone, and the list of
\* tests/test_core.py test_multiple_patterns
EnabledLists ==
  UNION {{e \in [1..n -> EnabledUniverse] : \A i, j \in 1..n : i # j => e[i] # e[j]}
         : n \in 0..MaxEnabled}
  \cup {<<"hardcoded_password">>, <<"resource_leak">>, <<"high_complexity">>,
        <<"hardcoded_password", "resource_leak", "null_dereference">>}

EmptyDict == [k \in {} |-> 0]

\* thresholds: none configured, or function_length lowered to 10, or
\* cyclomatic_complexity lowered to 2 (a threshold is read for long_function
\* and high_complexity only, so one is configured only when such a rule is
\* enabled)
ThresholdChoices(enabled) ==
  {EmptyDict}
  \cup (IF {"long_function", "high_complexity"} \cap Range(enabled) # {}
        THEN {[k \in {"function_length"} |-> 10]} ELSE {})
  \cup (IF "high_complexity" \in Range(enabled)
        THEN {[k \in {"cyclomatic_complexity"} |-> 2]} ELSE {})

\* reporting: no cutoff configured, or one of the four
ReportingChoices == {EmptyDict} \cup {[k \in {"severity_filter"} |-> sev] : sev \in Severities}

\* the function definitions of a file, by index
FunctionDefs(file) == {i \in DOMAIN Walk(file) : Walk(file)[i].kind = "FunctionDef"}

\* no call raises, or those of one enabled rule do: on every node, or on one
\* function definition only
FaultChoices(file, enabled) ==
  {NoFault} \cup
  {[rule |-> r, node |-> i] :
     r \in Range(enabled) \cap DOMAIN PATTERNS, i \in {0} \cup FunctionDefs(file)}

NoConfig == [enabled |-> <<>>, thresholds |-> EmptyDict, reporting |-> EmptyDict]

(***************************************************************************)
(* State.                                                                  *)
(*   pc          where the run is: idle; ready (a DefectDetector is        *)
(*               constructed), done (detect_all returned), again (a second *)
(*               detect_all on the same detector returned); matching (a    *)
(*               PatternMatcher is constructed), matched (match_all        *)
(*               returned); registered (a PatternMatcher is constructed    *)
(*               for queries), queried (get_pattern_info was called);      *)
(*               running (the command line's analyze is at its loop);      *)
(*               graphed (build_call_graph returned);                      *)
(*               raised (the call raised)                                  *)
(*   file        parser.file_path of the ASTParser in use                  *)
(*   config      the configuration; for a PatternMatcher, config.enabled   *)
(*               is the enabled_patterns argument of match_all             *)
(*   fault       the detector calls that raise                             *)
(*   all_defects detect_all's all_defects when it returned                 *)
(*   result      the list detect_all returned                              *)
(*   matches     the list match_all returned                               *)
(*   diagnostics what the pass recorded about the detector calls that      *)
(*               raised                                                    *)
(*   executor    the SymbolicExecutor in use                               *)
(*   symbolic_defects  the list analyze returned                           *)
(*   rule_sets   the three dictionaries a PatternMatcher registers         *)
(*   patterns    matcher.patterns                                          *)
(*   query       the last get_pattern_info call: its argument, whether it  *)
(*               raised, what it returned                                  *)
(*   run         the command line's analyze: the files found, how many are *)
(*               handled, its two lists, the files reported on stderr      *)
(*   graph       the graph build_call_graph returned: the type attribute   *)
(*               of each node, and the edges                               *)
(***************************************************************************)
VARIABLES pc, file, config, fault, all_defects, result, matches, diagnostics,
          executor, symbolic_defects, rule_sets, patterns, query, run, graph

vars == <<pc, file, config, fault, all_defects, result, matches, diagnostics,
          executor, symbolic_defects, rule_sets, patterns, query, run, graph>>

Init ==
  /\ pc = "idle"
  /\ file = ""
  /\ config = NoConfig
  /\ fault = NoFault
  /\ all_defects = <<>>
  /\ result = <<>>
  /\ matches = <<>>
  /\ diagnostics = <<>>
  /\ executor = NoExecutor
  /\ symbolic_defects = <<>>
  /\ rule_sets = ShippedRuleSets
  /\ patterns = EmptyDict
  /\ query = [pattern_name |-> "", raised |-> FALSE, info |-> <<>>]
  /\ run = [py_files |-> <<>>, index |-> 0, all_defects |-> <<>>,
            all_metrics |-> <<>>, errors |-> <<>>]
  /\ graph = [nodes |-> <<>>, edges |-> {}]

\* parser = ASTParser(source_code, file_path); DefectDetector(parser, config)
\* (detector calls are made to raise in the runs with no cutoff configured:
\* the filter is applied after the walk and reads nothing of a failure)
NewDetector ==
  /\ pc = "idle"
  /\ \E f \in Files, enabled \in EnabledLists, reporting \in ReportingChoices :
       /\ file' = f
       /\ \E thresholds \in ThresholdChoices(enabled) :
            config' = [enabled |-> enabled, thresholds |-> thresholds,
                       reporting |-> reporting]
       /\ \E flt \in (IF reporting = EmptyDict THEN FaultChoices(f, enabled)
                     ELSE {NoFault}) :
            fault' = flt
  /\ pc' = "ready"
  /\ UNCHANGED <<all_defects, result, matches, diagnostics, executor, symbolic_defects,
                 rule_sets, patterns, query, run, graph>>

\* the ASTParser of each file: built once, read-only afterwards
Parsers ==
  [FileNull  |-> ASTParser(FileNullNodes, "FileNull"),
   FileMixed |-> ASTParser(FileMixedNodes, "FileMixed"),
   FileLong  |-> ASTParser(FileLongNodes, "FileLong"),
   FileBranchy |-> ASTParser(FileBranchyNodes, "FileBranchy"),
   FileCases |-> ASTParser(FileCasesNodes, "FileCases")]

\* detector.detect_all().  The except handler of _detect_node_defects binds
\* the exception and continues: nothing is appended to any list, so no
\* diagnostic exists after the call
DetectAll ==
  /\ pc = "ready"
  /\ LET r == detect_all(Parsers[file], config, fault)
     IN  /\ pc' = IF r.raised THEN "raised" ELSE "done"
         /\ all_defects' = r.all_defects
         /\ result' = r.filtered
  /\ diagnostics' = <<>>
  /\ UNCHANGED <<file, config, fault, matches, executor, symbolic_defects,
                 rule_sets, patterns, query, run, graph>>

\* a second detect_all that keeps its list on the detector: the call begins
\* with what the call before it collected
DetectAgain_accumulating ==
  /\ pc = "done"
  /\ LET r == detect_all(Parsers[file], config, fault)
     IN  /\ pc' = IF r.raised THEN "raised" ELSE "again"
         /\ all_defects' = all_defects \o r.all_defects
         /\ result' = FilterDefects(all_defects \o r.all_defects, MinSeverity(config))
  /\ diagnostics' = <<>>
  /\ UNCHANGED <<file, config, fault, matches, executor, symbolic_defects,
                 rule_sets, patterns, query, run, graph>>

\* detector.detect_all() once more on the same detector, as
\* get_pattern_statistics calls it: all_defects is a fresh list of the call
DetectAgain ==
  /\ pc = "done"
  /\ LET r == detect_all(Parsers[file], config, fault)
     IN  /\ pc' = IF r.raised THEN "raised" ELSE "again"
         /\ all_defects' = r.all_defects
         /\ result' = r.filtered
  /\ diagnostics' = <<>>
  /\ UNCHANGED <<file, config, fault, matches, executor, symbolic_defects,
                 rule_sets, patterns, query, run, graph>>

\* parser = ASTParser(source_code, file_path); PatternMatcher(config)
NewMatcher ==
  /\ pc = "idle"
  /\ \E f \in Files, enabled \in EnabledLists :
       /\ file' = f
       /\ config' = [NoConfig EXCEPT !.enabled = enabled]
       /\ \E flt \in FaultChoices(f, enabled) : fault' = flt
  /\ patterns' = _load_patterns
  /\ pc' = "matching"
  /\ UNCHANGED <<all_defects, result, matches, diagnostics, executor, symbolic_defects,
                 rule_sets, query, run, graph>>

\* matcher.match_all(parser, enabled_patterns); its except handler records
\* nothing either
MatchAll ==
  /\ pc = "matching"
  /\ LET r == match_all(Parsers[file], config.enabled, fault)
     IN  /\ pc' = IF r.raised THEN "raised" ELSE "matched"
         /\ matches' = r.matches
  /\ diagnostics' = <<>>
  /\ UNCHANGED <<file, config, fault, all_defects, result, executor,
                 symbolic_defects, rule_sets, patterns, query, run, graph>>

\* PatternMatcher(config) over the dictionaries as shipped, or after a rule
\* was added to the security or the performance module under an id that an
\* earlier dictionary holds
Register ==
  /\ pc = "idle"
  /\ LET Added(d, id, type) ==
           [k \in DOMAIN d \cup {id} |->
              IF k = id THEN [type |-> type, severity |-> "low", detector |-> id]
              ELSE d[k]]
     IN  \E sets \in
            {ShippedRuleSets} \cup
            {[ShippedRuleSets EXCEPT
                !.SECURITY_PATTERNS = Added(@, id, "SecurityPattern")] :
               id \in {"sql_injection", "null_dereference"}} \cup
            {[ShippedRuleSets EXCEPT
                !.PERFORMANCE_PATTERNS = Added(@, id, "PerformancePattern")] :
               id \in {"long_function", "command_injection"}} :
            /\ rule_sets' = sets
            /\ patterns' = LoadPatterns(sets)
  /\ pc' = "registered"
  /\ UNCHANGED <<file, config, fault, all_defects, result, matches, diagnostics,
                 executor, symbolic_defects, query, run, graph>>

\* matcher.get_pattern_info(pattern_name), for a registered id or another:
\* query tells whether the call returned or raised
GetPatternInfo ==
  /\ pc = "registered"
  /\ \E pattern_name \in DOMAIN patterns \cup {"no_such_pattern"} :
       LET r == get_pattern_info(rule_sets, patterns, pattern_name)
       IN  query' = [pattern_name |-> pattern_name, raised |-> r.raised,
                     info |-> r.info]
  /\ pc' = "queried"
  /\ UNCHANGED <<file, config, fault, all_defects, result, matches, diagnostics,
                 executor, symbolic_defects, rule_sets, patterns, run, graph>>

\* cli.analyze_file: ASTParser(source_code, file_path) raises ValueError on a
\* source ast.parse refuses (a file that is none of Files); else
\* detector.detect_all() and parser.calculate_metrics(), of which the
\* counts and the path are kept.  The run is one without --symbolic
analyze_file(file_path, config_data) ==
  IF file_path \notin Files
  THEN [raised |-> TRUE, defects |-> <<>>, metrics |-> <<>>]
  ELSE LET parser == Parsers[file_path]
           r == detect_all(parser, config_data, NoFault)
       IN  [raised |-> r.raised,
            defects |-> r.filtered,
            metrics |-> [function_count |-> Len(parser.functions),
                         import_count |-> Len(parser.imports),
                         variable_count |-> Len(parser.variables),
                         file_path |-> parser.file_path]]

\* cli.analyze up to its loop: the configuration with the --severity
\* option written into it, the files found (no path twice, one of them a
\* file that does not parse), and the two empty lists
StartRun ==
  /\ pc = "idle"
  /\ \E enabled \in {<<"long_function", "unused_variable">>,
                      <<"null_dereference", "sql_injection">>},
        severity \in {"low", "medium"} :
       \E thresholds \in ThresholdChoices(enabled) :
         config' = [enabled |-> enabled, thresholds |-> thresholds,
                    reporting |-> [k \in {"severity_filter"} |-> severity]]
  /\ \E n \in 0..MaxFiles :
       \E py_files \in [1..n -> Files \cup {"FileBroken"}] :
         /\ \A i, j \in 1..n : i # j => py_files[i] # py_files[j]
         /\ run' = [py_files |-> py_files, index |-> 0, all_defects |-> <<>>,
                    all_metrics |-> <<>>, errors |-> <<>>]
  /\ pc' = "running"
  /\ UNCHANGED <<file, fault, all_defects, result, matches, diagnostics,
                 executor, symbolic_defects, rule_sets, patterns, query, graph>>

\* the loop of analyze ending at the first file that raises
AnalyzeFile_stops ==
  /\ pc = "running"
  /\ run.index < Len(run.py_files)
  /\ LET file_path == run.py_files[run.index + 1]
         r == analyze_file(file_path, config)
     IN  run' = IF r.raised
                THEN [run EXCEPT !.index = Len(run.py_files),
                                 !.errors = Append(@, file_path)]
                ELSE [run EXCEPT !.index = @ + 1,
                                 !.all_defects = @ \o r.defects,
                                 !.all_metrics = Append(@, r.metrics)]
  /\ UNCHANGED <<pc, file, config, fault, all_defects, result, matches, diagnostics,
                 executor, symbolic_defects, rule_sets, patterns, query, graph>>

\* one iteration of analyze's loop: try analyze_file, extend and append;
\* except Exception: the message is written and the loop goes on
AnalyzeFile ==
  /\ pc = "running"
  /\ run.index < Len(run.py_files)
  /\ LET file_path == run.py_files[run.index + 1]
         r == analyze_file(file_path, config)
     IN  run' = IF r.raised
                THEN [run EXCEPT !.index = @ + 1,
                                 !.errors = Append(@, file_path)]
                ELSE [run EXCEPT !.index = @ + 1,
                                 !.all_defects = @ \o r.defects,
                                 !.all_metrics = Append(@, r.metrics)]
  /\ UNCHANGED <<pc, file, config, fault, all_defects, result, matches, diagnostics,
                 executor, symbolic_defects, rule_sets, patterns, query, graph>>

\* graph = CallGraphAnalyzer(parser).build_call_graph(), for the parser of
\* a file
BuildCallGraph ==
  /\ pc = "idle"
  /\ \E f \in Files :
       /\ file' = f
       /\ graph' = build_call_graph(Parsers[f])
  /\ pc' = "graphed"
  /\ UNCHANGED <<config, fault, all_defects, result, matches, diagnostics,
                 executor, symbolic_defects, rule_sets, patterns, query, run>>

\* a run of the command line's analyze
NextRun == StartRun \/ AnalyzeFile

SpecRun == Init /\ [][NextRun]_vars

Next ==
  \/ NewDetector \/ DetectAll \/ DetectAgain \/ NewMatcher \/ MatchAll
  \/ Register \/ GetPatternInfo \/ BuildCallGraph

Spec == Init /\ [][Next]_vars

(***************************************************************************)
(* The symbolic analysis of one parser: analyze() step by step.            *)
(*   pc  constructed (a SymbolicExecutor exists), loop (analyze is at its  *)
(*       for statement), session (_analyze_function made the symbolic      *)
(*       variables), traversed (_traverse_ast returned), checked           *)
(*       (_check_path_constraints returned), returned (analyze returned),  *)
(*       raised (an exception left analyze)                                *)
(***************************************************************************)
\* the function analyze's loop is at
CurrentFunction == SymbolicParsers[executor.parser].functions[executor.func]

\* symbolic_executor = SymbolicExecutor(parser) or (parser, max_depth); its
\* solver is one that decides every query, or gives up on those of a kind
NewExecutor ==
  /\ pc = "idle"
  /\ \E parser \in DOMAIN SymbolicParsers, max_depth \in {0, 1, DefaultMaxDepth},
        unknown \in SUBSET {"check_division", "check_path"} :
       executor' = [SymbolicExecutor(parser, SymbolicParsers[parser].file_path,
                                     max_depth) EXCEPT !.unknown = unknown]
  /\ pc' = "constructed"
  /\ UNCHANGED <<file, config, fault, all_defects, result, matches, diagnostics,
                 symbolic_defects, rule_sets, patterns, query, run, graph>>

\* analyze(): self.defects = [] and the loop begins
Analyze ==
  /\ pc = "constructed"
  /\ executor' = [executor EXCEPT !.defects = <<>>, !.func = 1]
  /\ pc' = "loop"
  /\ UNCHANGED <<file, config, fault, all_defects, result, matches, diagnostics,
                 symbolic_defects, rule_sets, patterns, query, run, graph>>

\* `if func_info.body:` fails: the function is passed over
SkipFunction ==
  /\ pc = "loop"
  /\ executor.func <= Len(SymbolicParsers[executor.parser].functions)
  /\ CurrentFunction.body.kind = "None"
  /\ executor' = [executor EXCEPT !.func = @ + 1]
  /\ UNCHANGED <<pc, file, config, fault, all_defects, result, matches, diagnostics,
                 symbolic_defects, rule_sets, patterns, query, run, graph>>

\* _analyze_function: a symbolic variable for every argument joins
\* self.variables
BeginFunction ==
  /\ pc = "loop"
  /\ executor.func <= Len(SymbolicParsers[executor.parser].functions)
  /\ CurrentFunction.body.kind # "None"
  /\ executor' =
       [executor EXCEPT
          !.events = <<>>,
          !.variables =
            [name \in DOMAIN @ \cup Range(CurrentFunction.args) |->
               IF name \in Range(CurrentFunction.args)
               THEN _create_symbolic_variable(name) ELSE @[name]]]
  /\ pc' = "session"
  /\ UNCHANGED <<file, config, fault, all_defects, result, matches, diagnostics,
                 symbolic_defects, rule_sets, patterns, query, run, graph>>

\* self._traverse_ast(func_info.body, depth=0)
TraverseBody ==
  /\ pc = "session"
  /\ executor' = _traverse_ast(executor, CurrentFunction.body, 0)
  /\ pc' = IF executor'.exc # "" THEN "raised" ELSE "traversed"
  /\ UNCHANGED <<file, config, fault, all_defects, result, matches, diagnostics,
                 symbolic_defects, rule_sets, patterns, query, run, graph>>

\* self._check_path_constraints()
CheckPathConstraints ==
  /\ pc = "traversed"
  /\ executor' = _check_path_constraints(executor)
  /\ pc' = IF executor'.exc # "" THEN "raised" ELSE "checked"
  /\ UNCHANGED <<file, config, fault, all_defects, result, matches, diagnostics,
                 symbolic_defects, rule_sets, patterns, query, run, graph>>

\* the end of a session that resets nothing
EndFunction_keeps ==
  /\ pc = "checked"
  /\ executor' = [executor EXCEPT !.func = @ + 1]
  /\ pc' = "loop"
  /\ UNCHANGED <<file, config, fault, all_defects, result, matches, diagnostics,
                 symbolic_defects, rule_sets, patterns, query, run, graph>>

\* variables.clear(), path_constraints.clear(), solver.reset(); the loop
\* goes on
EndFunction ==
  /\ pc = "checked"
  /\ executor' = [executor EXCEPT !.variables = <<>>, !.path_constraints = <<>>,
                                  !.solver = NewSolver, !.func = @ + 1]
  /\ pc' = "loop"
  /\ UNCHANGED <<file, config, fault, all_defects, result, matches, diagnostics,
                 symbolic_defects, rule_sets, patterns, query, run, graph>>

\* return self.defects
ReturnDefects ==
  /\ pc = "loop"
  /\ executor.func > Len(SymbolicParsers[executor.parser].functions)
  /\ symbolic_defects' = executor.defects
  /\ pc' = "returned"
  /\ UNCHANGED <<file, config, fault, all_defects, result, matches, diagnostics,
                 executor, rule_sets, patterns, query, run, graph>>

NextSymbolic ==
  \/ NewExecutor \/ Analyze \/ SkipFunction \/ BeginFunction \/ TraverseBody
  \/ CheckPathConstraints \/ EndFunction \/ ReturnDefects

SpecSymbolic == Init /\ [][NextSymbolic]_vars

(***************************************************************************)
(* Properties of the detection pass.                                       *)
(***************************************************************************)
\* the elements of a list of defects that carry pattern p, in order
OfPattern(defects, p) ==
  LET carries(d) == d.pattern = p IN SelectSeq(defects, carries)

\* the elements of a list of matches that rule p produced, in order
MatchesOf(ms, p) ==
  LET by(m) == m.pattern_name = p IN SelectSeq(ms, by)

\* the value of each severity, and the cutoff a configuration asks for
SeverityRank == [low |-> 1, medium |-> 2, high |-> 3, critical |-> 4]

CutoffOf(cfg) ==
  IF "severity_filter" \in DOMAIN cfg.reporting THEN cfg.reporting.severity_filter
  ELSE "medium"

\* C1: every defect detect_all returns carries a pattern id that is a member
\* of the enabled list, the unused_variable and unused_import findings
\* included
C1_PatternIsEnabled ==
  pc = "done" =>
    \A k \in DOMAIN result : result[k].pattern \in Range(config.enabled)

\* a run with two ids enabled that returned a finding of the walk and a
\* finding of a special detection
C1_Reached ==
  /\ pc = "done"
  /\ Len(config.enabled) = 2
  /\ \E j, k \in DOMAIN result :
       /\ result[j].pattern \in DOMAIN PATTERNS
       /\ result[k].pattern \in {"unused_variable", "unused_import"}

\* the call of rule p's detector on the node of index idx raises, in the run
\* the state describes
Fails(p, idx) ==
  \/ /\ pc \in {"ready", "done"}
     /\ p \in DOMAIN PATTERNS
     /\ Raises(fault, p, idx)
  \/ /\ pc \in {"matching", "matched"}
     /\ p \in DOMAIN _load_patterns
     /\ \/ Raises(fault, p, idx)
        \/ _load_patterns[p].type # "dict"

FailedRules == {p \in Range(config.enabled) : \E idx \in DOMAIN Walk(file) : Fails(p, idx)}

\* what rule p yields on each node where its call does not raise, in walk order
SurvivingDefects(p) ==
  Concat([idx \in DOMAIN Walk(file) |->
            IF Fails(p, idx) THEN <<>>
            ELSE RunDetector(Parsers[file], config, NoFault, p, idx).result])

\* C2: a detector that fails on a node does not make the pass raise; only
\* that (rule, node) evaluation is dropped, and every defect the other
\* evaluations produce, on every node, is still collected
C2_FailureIsContained ==
  /\ pc # "raised"
  /\ (pc = "done" /\ FailedRules # {}) =>
       LET unfailing == detect_all(Parsers[file], config, NoFault).all_defects
       IN  /\ \A p \in Range(config.enabled) \ FailedRules :
                OfPattern(all_defects, p) = OfPattern(unfailing, p)
           /\ \A p \in FailedRules : OfPattern(all_defects, p) = SurvivingDefects(p)
  /\ (pc = "matched" /\ FailedRules # {}) =>
       LET unfailing == match_all(Parsers[file], config.enabled, NoFault).matches
       IN  \A p \in Range(config.enabled) \ FailedRules :
             MatchesOf(matches, p) = MatchesOf(unfailing, p)

\* a detector failed on the function definition (an early node of the walk)
\* and a defect of another rule, found on a later node, was returned
C2_Reached ==
  /\ pc = "done"
  /\ fault.node # 0
  /\ FailedRules # {}
  /\ \E k \in DOMAIN result :
       /\ result[k].pattern \in DOMAIN PATTERNS
       /\ result[k].pattern # fault.rule
       /\ result[k].line > Walk(file)[fault.node].lineno

\* C3 (as stated): every detector failure is recorded as a diagnostic that
\* names the failing rule and is handed to the caller with the result
C3_FailureIsRecorded ==
  pc \in {"done", "matched"} =>
    \A p \in FailedRules : \E k \in DOMAIN diagnostics : diagnostics[k].rule = p

\* C4: detect_all returns exactly the collected findings whose severity value
\* (low 1, medium 2, high 3, critical 4) is at least the cutoff's, in their
\* original order; the cutoff is medium when none is configured
C4_FilterIsInclusive ==
  pc = "done" =>
    LET kept(d) == SeverityRank[d.severity] >= SeverityRank[CutoffOf(config)]
    IN  result = SelectSeq(all_defects, kept)

\* a run whose cutoff kept a finding of exactly the cutoff's severity and
\* dropped a lower one
C4_Reached ==
  /\ pc = "done"
  /\ \E k \in DOMAIN result : result[k].severity = CutoffOf(config)
  /\ Len(result) < Len(all_defects)

\* the configurations that differ from the state's in the cutoff only, the
\* cutoff being at least the state's
HigherCutoffs ==
  {cfg \in {[config EXCEPT !.reporting = r] : r \in ReportingChoices} :
     SeverityRank[CutoffOf(cfg)] >= SeverityRank[CutoffOf(config)]}

\* C5: for the same file and enabled patterns, the defects returned with a
\* higher cutoff are a subset of the defects returned with a lower one
C5_FilterIsMonotonic ==
  pc = "done" =>
    \A cfg \in HigherCutoffs :
      Range(detect_all(Parsers[file], cfg, fault).filtered) \subseteq Range(result)

\* a run that returned defects of which a higher cutoff returns some, not all
C5_Reached ==
  /\ pc = "done"
  /\ \E cfg \in HigherCutoffs :
       LET higher == Range(detect_all(Parsers[file], cfg, fault).filtered)
       IN  higher # {} /\ higher # Range(result)

\* C9 (as stated): with null_dereference enabled, the attribute access on a
\* variable assigned None (obj = None; return obj.attribute) makes detect_all
\* return exactly one defect, a high-severity null_dereference, first in the
\* returned list
C9_NoneVariableIsReported ==
  ( /\ pc = "done"
    /\ file = "FileNull"
    /\ config.enabled = <<"null_dereference">>
    /\ fault = NoFault
    /\ SeverityRank[CutoffOf(config)] <= SeverityRank["high"] )
  => /\ Len(result) = 1
     /\ result[1].pattern = "null_dereference"
     /\ result[1].severity = "high"

\* the long_function defects of a returned list that name the function
LongFunctionDefects(defects, name) ==
  LET names(d) == d.pattern = "long_function" /\ d.context = name
  IN  SelectSeq(defects, names)

\* the function_length threshold a configuration resolves to
FunctionLengthOf(cfg) ==
  IF "function_length" \in DOMAIN cfg.thresholds THEN cfg.thresholds.function_length
  ELSE 50

\* a run of the long_function rule whose detector does not fail
LongFunctionRan ==
  /\ pc = "done"
  /\ "long_function" \in Range(config.enabled)
  /\ fault.rule # "long_function"

\* C10: with long_function enabled and a cutoff of medium or lower,
\* detect_all returns exactly one medium-severity long_function defect naming
\* a function when its line span exceeds the resolved threshold (configured,
\* else 50), and none otherwise; under a cutoff of high or critical it
\* returns none at all
C10_LongFunctionUnderCutoff ==
  LongFunctionRan =>
    \A i \in FunctionDefs(file) :
      LET node  == Walk(file)[i]
          found == LongFunctionDefects(result, node.name)
      IN  IF /\ node.end_lineno - node.lineno > FunctionLengthOf(config)
             /\ SeverityRank[CutoffOf(config)] <= SeverityRank["medium"]
          THEN Len(found) = 1 /\ found[1].severity = "medium"
          ELSE found = <<>>

\* the function of 30 calls was reported at threshold 10
C10_Reached ==
  /\ LongFunctionRan
  /\ file = "FileLong"
  /\ FunctionLengthOf(config) = 10
  /\ Len(LongFunctionDefects(result, "long_one")) = 1

\* C10 (as stated): whatever the cutoff, exactly one defect when the span
\* exceeds the threshold and none otherwise
C10_LongFunctionAsStated ==
  LongFunctionRan =>
    \A i \in FunctionDefs(file) :
      LET node  == Walk(file)[i]
          found == LongFunctionDefects(result, node.name)
      IN  IF node.end_lineno - node.lineno > FunctionLengthOf(config)
          THEN Len(found) = 1 /\ found[1].severity = "medium"
          ELSE found = <<>>

(***************************************************************************)
(* Properties of the symbolic analysis.                                    *)
(***************************************************************************)
\* how many events of the session in progress are of the given kind
CountEvents(kind) ==
  Cardinality({i \in DOMAIN executor.events : executor.events[i].kind = kind})

C7_QuotientIsReported ==
  (pc = "returned" /\ executor.parser = "FileDiv") =>
    /\ symbolic_defects =
         <<Defect("division_by_zero_symbolic", "high", 2, "FileDiv", "")>>
    /\ \E i \in DOMAIN executor.events :
         /\ executor.events[i].kind = "check_division"
         /\ executor.events[i].stack = <<>>

\* C8: for the file whose function holds  if x > 0: ... elif x > 0: ...
\* the check after the traversal finds the path constraints unsatisfiable
\* and analyze returns exactly one defect, unreachable_code of medium
\* severity at line 0
C8_RepeatedConditionIsReported ==
  (pc = "returned" /\ executor.parser = "FileElif") =>
    /\ symbolic_defects = <<Defect("unreachable_code", "medium", 0, "FileElif", "")>>
    /\ \E i \in DOMAIN executor.events :
         /\ executor.events[i].kind = "check_path"
         /\ executor.events[i].result = "unsat"

C12_EnabledRuleIsInvoked ==
  pc = "matched" =>
    \A k \in DOMAIN config.enabled :
      config.enabled[k] \in DOMAIN _load_patterns =>
        \A idx \in DOMAIN Parsers[file].ast_tree :
          RunMatch(Parsers[file], fault, config.enabled[k], idx).called

\* C13: a pass over a file returns only when every enabled id is known: an
\* id that is neither in the merged registry nor one of the two special
\* detections stops the run with a configuration error before the file is
\* analysed
C13_UnknownIdIsSurfaced ==
  pc \in {"done", "again", "matched"} =>
    \A k \in DOMAIN config.enabled :
      config.enabled[k] \in DOMAIN _load_patterns \cup {"unused_variable", "unused_import"}

\* C14: a registration that completes met no id defined by two of the
\* dictionaries it merged, and every entry of an earlier dictionary is in
\* the registry as that dictionary defines it
C14_CollisionIsReported ==
  pc = "registered" =>
    /\ DOMAIN rule_sets.PATTERNS \cap DOMAIN rule_sets.SECURITY_PATTERNS = {}
    /\ DOMAIN rule_sets.PATTERNS \cap DOMAIN rule_sets.PERFORMANCE_PATTERNS = {}
    /\ DOMAIN rule_sets.SECURITY_PATTERNS \cap DOMAIN rule_sets.PERFORMANCE_PATTERNS = {}
    /\ \A id \in DOMAIN rule_sets.PATTERNS : patterns[id] = rule_sets.PATTERNS[id]
    /\ \A id \in DOMAIN rule_sets.SECURITY_PATTERNS :
         patterns[id] = rule_sets.SECURITY_PATTERNS[id]

\* C15: over the dictionaries as shipped, get_pattern_info of a registered
\* id returns, without raising, the id's severity and the category of the
\* dictionary that defines it: basic, security or performance
C15_InfoOfEveryRegisteredId ==
  (/\ pc = "queried"
   /\ rule_sets = ShippedRuleSets
   /\ query.pattern_name \in DOMAIN patterns) =>
    /\ ~query.raised
    /\ query.info # <<>>
    /\ query.info.severity = patterns[query.pattern_name].severity
    /\ query.info.category =
         IF query.pattern_name \in DOMAIN SECURITY_PATTERNS THEN "security"
         ELSE IF query.pattern_name \in DOMAIN PERFORMANCE_PATTERNS THEN "performance"
         ELSE "basic"

(***************************************************************************)
(* Properties of a run of the command line over several files.             *)
(***************************************************************************)
\* C16: after any number of the files were handled, no exception has left
\* the loop; the defect list is the concatenation, in file order, of what
\* detect_all returns for each handled file that parses; the metrics are
\* those of these files, one each and in order; and the files reported are
\* the handled files that do not parse, in order
C16_ParseFailureIsSkipped ==
  (run.py_files # <<>> \/ pc = "running") =>
    LET handled == SubSeq(run.py_files, 1, run.index)
        Parses(f) == f \in Files
        Broken(f) == f \notin Files
    IN  /\ pc = "running"
        /\ run.all_defects =
             Concat([k \in DOMAIN handled |->
                       IF Parses(handled[k])
                       THEN detect_all(Parsers[handled[k]], config, NoFault).filtered
                       ELSE <<>>])
        /\ [k \in DOMAIN run.all_metrics |-> run.all_metrics[k].file_path] =
             SelectSeq(handled, Parses)
        /\ run.errors = SelectSeq(handled, Broken)

\* a run ended whose second file did not parse and whose list holds
\* defects of the first file and of the third
C16_Reached ==
  /\ pc = "running"
  /\ run.index = 3
  /\ Len(run.py_files) = 3
  /\ run.py_files[2] = "FileBroken"
  /\ \E i, j \in DOMAIN run.all_defects :
       /\ i < j
       /\ run.all_defects[i].file_path = run.py_files[1]
       /\ run.all_defects[j].file_path = run.py_files[3]

(***************************************************************************)
(* Properties of the sessions of one symbolic analysis.                    *)
(***************************************************************************)
\* C17: at the moment the traversal of a function begins, the symbol table
\* holds the function's parameters and no other name, the constraint stack
\* is empty and the solver holds no assertion, whatever the functions
\* analysed before it left behind
C17_SessionStartsClean ==
  pc = "session" =>
    /\ DOMAIN executor.variables = Range(CurrentFunction.args)
    /\ executor.path_constraints = <<>>
    /\ executor.solver = NewSolver

\* the session of a second function begins, the first one having assigned
C17_Reached ==
  /\ pc = "session"
  /\ executor.func = 2
  /\ SymbolicParsers[executor.parser].functions[1].body.kind = "Assign"

\* a statement and the statements nested in it
RECURSIVE Nested(_)
Nested(node) ==
  {node} \cup
  (IF node.kind = "If"
   THEN UNION {Nested(node.body[k]) : k \in DOMAIN node.body} \cup
        UNION {Nested(node.orelse[k]) : k \in DOMAIN node.orelse}
   ELSE IF node.kind = "While"
   THEN UNION {Nested(node.body[k]) : k \in DOMAIN node.body}
   ELSE {})

\* the most constraints the statements of a subtree may append when the
\* subtree is entered at the given depth and nothing deeper than max counts:
\* an If its condition and the negation, a While its condition, an Assign
\* one per Name target
RECURSIVE Budget(_, _, _)
Budget(node, depth, max) ==
  IF depth > max THEN 0
  ELSE IF node.kind = "If"
  THEN 2 + Sum([k \in DOMAIN node.body |-> Budget(node.body[k], depth + 1, max)])
         + Sum([k \in DOMAIN node.orelse |-> Budget(node.orelse[k], depth + 1, max)])
  ELSE IF node.kind = "While"
  THEN 1 + Sum([k \in DOMAIN node.body |-> Budget(node.body[k], depth + 1, max)])
  ELSE IF node.kind = "Assign"
  THEN Cardinality({k \in DOMAIN node.targets : node.targets[k].kind = "Name"})
  ELSE 0

\* C18: _traverse_ast called on any statement of the function with a depth
\* above max_depth returns with the executor as it was (no constraint, no
\* solver query, no defect); and when the traversal of a body has
\* returned, no more constraints were appended than the statements nested
\* at most max_depth deep can append
C18_DepthLimitCutsTraversal ==
  /\ pc = "session" =>
       \A node \in Nested(CurrentFunction.body) :
         \A depth \in {executor.max_depth + 1, executor.max_depth + 2} :
           _traverse_ast(executor, node, depth) = executor
  /\ pc = "traversed" =>
       CountEvents("push") <= Budget(CurrentFunction.body, 0, executor.max_depth)

\* with max_depth 0 the traversal of  if 1 < 2: if 2 > 1: a = 1  returned
\* having appended the outer condition only
C18_Reached ==
  /\ pc = "traversed"
  /\ executor.parser = "if_nested"
  /\ executor.max_depth = 0
  /\ CountEvents("push") = 1

(***************************************************************************)
(* Properties of the indices of the parser.                                *)
(***************************************************************************)
\* C19: when detect_all has returned with unused_variable enabled, the
\* names it collected as unused are exactly the names that are written
\* somewhere in the tree (a Name in Store context), are read nowhere (no
\* Name in Load context) and do not begin with an underscore
C19_UnusedIsWrittenAndUnread ==
  (pc = "done" /\ "unused_variable" \in Range(config.enabled)) =>
    LET nodes   == Walk(file)
        written == {nodes[i].name :
                      i \in {j \in DOMAIN nodes :
                               nodes[j].kind = "Name" /\ nodes[j].ctx = "Store"}}
        flagged == {all_defects[k].context :
                      k \in {j \in DOMAIN all_defects :
                               all_defects[j].pattern = "unused_variable"}}
    IN  flagged = {name \in written \ UsedNames(nodes) : ~StartsWithUnderscore(name)}

\* 1, plus one for each node of the given loop and branch types inside the
\* k-th function of the file, one for each Try and ExceptHandler, one for
\* each operand after the first of each BoolOp, and one for each case of
\* each Match
ComplexityBy(f, k, branches) ==
  LET nodes  == Walk(f)
      root   == Parsers[f].functions[k].body
      inside == {i \in DOMAIN nodes : InSubtree(nodes, i, root)}
  IN  1 + Cardinality({i \in inside : nodes[i].kind \in branches})
        + Cardinality({i \in inside : nodes[i].kind \in {"Try", "ExceptHandler"}})
        + Sum([i \in DOMAIN nodes |->
                 IF i \in inside /\ nodes[i].kind = "BoolOp"
                 THEN nodes[i].count - 1 ELSE 0])
        + Sum([i \in DOMAIN nodes |->
                 IF i \in inside /\ nodes[i].kind = "Match"
                 THEN nodes[i].count ELSE 0])

\* C20: the complexity recorded for every function of a parsed file is at
\* least 1 and equals 1 plus one for each If, While, For and AsyncFor node,
\* one for each Try and each ExceptHandler, one for each operand beyond the
\* first of every boolean chain and one for each arm of every match inside
\* the function, and nothing else
C20_ComplexityCounts ==
  pc = "ready" =>
    \A k \in DOMAIN Parsers[file].functions :
      /\ Parsers[file].functions[k].complexity >= 1
      /\ Parsers[file].functions[k].complexity =
           ComplexityBy(file, k, {"If", "While", "For", "AsyncFor"})

\* the file with the function of complexity 11 is parsed
C20_Reached ==
  /\ pc = "ready"
  /\ file = "FileBranchy"
  /\ Parsers[file].functions[1].complexity = 11

\* C20 as stated: the loops counted are the While and For nodes only
C20_ComplexityAsStated ==
  pc = "ready" =>
    \A k \in DOMAIN Parsers[file].functions :
      Parsers[file].functions[k].complexity =
        ComplexityBy(file, k, {"If", "While", "For"})

(***************************************************************************)
(* Properties of the detectors on the constructs of FileCases.             *)
(***************************************************************************)

\* the defects of a pattern in a list, as the set of their <<line, context>>
Reported(defects, p) ==
  {<<defects[k].line, defects[k].context>> :
     k \in {j \in DOMAIN defects : defects[j].pattern = p}}

\* C21 (as stated): with hardcoded_password enabled, every string literal
\* assigned to a variable whose name holds a credential keyword is reported
\* by detect_all as a critical hardcoded_password defect at the literal's
\* line; and with resource_leak and null_dereference enabled as well, the
\* function problematic of FileCases (lines 5 to 10: such an assignment, an
\* unclosed open() and an attribute access on a variable assigned None)
\* yields at least three defects
C21_CredentialLiteralIsReported ==
  (pc = "done" /\ "hardcoded_password" \in Range(config.enabled) /\ fault = NoFault) =>
    LET nodes    == Walk(file)
        literals == {i \in DOMAIN nodes :
                       /\ nodes[i].kind = "Constant" /\ nodes[i].is_str
                       /\ nodes[i].parent # 0
                       /\ nodes[nodes[i].parent].kind = "Assign"
                       /\ \E k \in DOMAIN nodes[nodes[i].parent].targets :
                            /\ nodes[nodes[i].parent].targets[k].kind = "Name"
                            /\ nodes[nodes[i].parent].targets[k].keyword}
    IN  /\ \A i \in literals :
             \E k \in DOMAIN all_defects :
               /\ all_defects[k].pattern = "hardcoded_password"
               /\ all_defects[k].severity = "critical"
               /\ all_defects[k].line = nodes[i].lineno
        /\ ( /\ file = "FileCases"
             /\ {"resource_leak", "null_dereference"} \subseteq Range(config.enabled) )
           => Cardinality({k \in DOMAIN all_defects : all_defects[k].line \in 5..10}) >= 3

\* C28 (as stated): an import whose bound name (the alias of `import m as a`,
\* the first component of `import a.b`, the imported name otherwise) is read
\* somewhere in the file is never reported as unused_import
C28_ReadImportIsNotReported ==
  (pc = "done" /\ "unused_import" \in Range(config.enabled)) =>
    LET nodes == Walk(file)
    IN  \A i \in DOMAIN nodes :
          nodes[i].kind \in {"Import", "ImportFrom"} =>
            \A k \in DOMAIN nodes[i].names :
              nodes[i].bound[k] \in UsedNames(nodes) =>
                <<nodes[i].lineno, nodes[i].names[k]>>
                  \notin Reported(all_defects, "unused_import")

\* C29 (as stated): with resource_leak enabled, the resource-opening calls
\* detect_all reports are exactly those that are not the context expression
\* of a with statement
C29_WithManagedIsNotReported ==
  (pc = "done" /\ "resource_leak" \in Range(config.enabled) /\ fault = NoFault) =>
    LET nodes   == Walk(file)
        opening == {i \in DOMAIN nodes :
                      nodes[i].kind = "Call" /\ nodes[i].func_name \in resource_functions}
        managed == {i \in opening : nodes[nodes[i].parent].kind = "withitem"}
    IN  Reported(all_defects, "resource_leak") =
          {<<nodes[i].lineno, nodes[i].src>> : i \in opening \ managed}

\* C30 (as stated): with high_complexity enabled, the function definitions
\* detect_all reports are exactly those whose own cyclomatic complexity
\* exceeds the resolved threshold (the configured cyclomatic_complexity, else
\* 10), also when several definitions share a name
C30_OwnComplexityDecides ==
  (pc = "done" /\ "high_complexity" \in Range(config.enabled) /\ fault = NoFault) =>
    LET nodes     == Walk(file)
        threshold == DictGet(config.thresholds, "cyclomatic_complexity", 10)
        exceeding == {i \in FunctionDefs(file) :
                        _calculate_cyclomatic_complexity(nodes, i) > threshold}
    IN  Reported(all_defects, "high_complexity") =
          {<<nodes[i].lineno, nodes[i].name>> : i \in exceeding}

(***************************************************************************)
(* Properties of the call graph.                                           *)
(***************************************************************************)

\* C22 (as stated): the graph build_call_graph returns has one node per
\* function, method (as Class.method) and class of the file and no other;
\* for every direct name call made inside a function body to a function
\* defined in the file it has the edge from the calling function to the
\* called one; and every edge joins two of these nodes
C22_CallsBecomeEdges ==
  pc = "graphed" =>
    LET nodes    == Walk(file)
        parser   == Parsers[file]
        defined  == {parser.functions[k].name : k \in DOMAIN parser.functions}
        declared == defined
                    \cup {parser.classes[c].name : c \in DOMAIN parser.classes}
                    \cup UNION {{parser.classes[c].name \o "." \o
                                   parser.classes[c].methods[m].name :
                                     m \in DOMAIN parser.classes[c].methods} :
                                c \in DOMAIN parser.classes}
        owner[j \in 0..Len(nodes)] ==
          IF j = 0 THEN 0
          ELSE IF nodes[j].kind = "FunctionDef" THEN j
          ELSE owner[nodes[j].parent]
        CallerOf(i) ==
          LET d == owner[nodes[i].parent]
          IN  IF nodes[nodes[d].parent].kind = "ClassDef"
              THEN nodes[nodes[d].parent].name \o "." \o nodes[d].name
              ELSE nodes[d].name
        calls == {i \in DOMAIN nodes :
                    /\ nodes[i].kind = "Call" /\ nodes[i].func_kind = "Name"
                    /\ nodes[i].func_name \in defined
                    /\ owner[nodes[i].parent] # 0}
    IN  /\ DOMAIN graph.nodes = declared
        /\ \A i \in calls : <<CallerOf(i), nodes[i].func_name>> \in graph.edges
        /\ \A e \in graph.edges : e[1] \in declared /\ e[2] \in declared

(***************************************************************************)
(* Properties of the solver queries.                                       *)
(***************************************************************************)

\* the queries of a kind in a log that got the given answer
Answered(events, kind, answer) ==
  Cardinality({i \in DOMAIN events :
                 events[i].kind = kind /\ events[i].result = answer})

\* C23: a solver query that answers unknown emits no defect and raises no
\* error, and the analysis goes on.  The traversal of a body adds exactly one
\* defect per division query answered sat, and a division query answered
\* unknown returns without an exception; the check after the traversal adds
\* one defect when its query is answered unsat and none otherwise, and when
\* the answer is unknown the session goes on to its end and the loop to the
\* next function
C23_UnknownIsInconclusive ==
  [][/\ pc = "session" =>
          /\ Len(executor'.defects) =
               Len(executor.defects) + Answered(executor'.events, "check_division", "sat")
          /\ "check_division" \in executor.unknown =>
               \A name \in DOMAIN executor.variables :
                 LET r == _check_division_by_zero(
                            executor, Z3Expr(executor.variables[name].z3_var), 0)
                 IN  r.exc = "" /\ r.defects = executor.defects
     /\ pc = "traversed" =>
          /\ Len(executor'.defects) =
               Len(executor.defects) + Answered(executor'.events, "check_path", "unsat")
          /\ Answered(executor'.events, "check_path", "unknown") > 0 =>
               pc' = "checked" /\ executor'.defects = executor.defects
     /\ pc = "checked" => pc' = "loop" /\ executor'.defects = executor.defects
    ]_vars

\* an analysis returned whose last session asked a division query and the
\* query after the traversal, both answered unknown
C23_Reached ==
  /\ pc = "returned"
  /\ Answered(executor.events, "check_division", "unknown") > 0
  /\ Answered(executor.events, "check_path", "unknown") > 0
  /\ symbolic_defects = <<>>

\* C27: a division-by-zero check that returns adds one high-severity
\* division_by_zero_symbolic defect at the line it is given exactly when the
\* solver answers sat, which, when the solver decides, is exactly when the
\* path constraints together with divisor == 0 are satisfiable; and it
\* leaves the solver's assertions, the constraint stack and the symbol table
\* as they were.  So the solver after a traversal is the solver before it
C27_DivisionCheckLeavesNoTrace ==
  /\ pc = "traversed" => executor.solver = NewSolver
  /\ pc \in {"session", "traversed"} =>
       \A name \in DOMAIN executor.variables :
         LET r == _check_division_by_zero(
                    executor, Z3Expr(executor.variables[name].z3_var), 7)
             answer == r.events[Len(r.events)].result
             names  == {name} \cup
                       UNION {VarsOf(_py2expr(executor.path_constraints[i])) :
                                i \in DOMAIN executor.path_constraints}
             satisfiable ==
               \E env \in [names -> (-SolverBound)..SolverBound] :
                 /\ env[name] = 0
                 /\ \A i \in DOMAIN executor.path_constraints :
                      Eval(_py2expr(executor.path_constraints[i]), env)
         IN  r.exc = "" =>
               /\ r.solver = executor.solver
               /\ r.path_constraints = executor.path_constraints
               /\ r.variables = executor.variables
               /\ r.defects =
                    IF answer = "sat"
                    THEN Append(executor.defects,
                                Defect("division_by_zero_symbolic", "high", 7,
                                       executor.file_path, ""))
                    ELSE executor.defects
               /\ answer # "unknown" => (answer = "sat" <=> satisfiable)

\* a traversal returned that asked a division query, answered sat, and
\* reported it; the solver is as the session found it
C27_Reached ==
  /\ pc = "traversed"
  /\ Answered(executor.events, "check_division", "sat") > 0
  /\ executor.defects # <<>>
  /\ executor.solver = NewSolver

(***************************************************************************)
(* Properties of the statement and expression handlers.                    *)
(***************************************************************************)

====
